---- MODULE Spec2Model ----
(***************************************************************************)
(* Model of github_runner_image_builder.                                   *)
(*   Spec            builder.build_image: the strictly sequential image    *)
(*                   build pipeline working on the host-wide singletons    *)
(*                   /dev/nbd0 and /mnt/ubuntu-image.  One action per      *)
(*                   external command or step; pc is the position inside   *)
(*                   build_image.                                          *)
(*   SpecCli         builder.initialize followed by build_image.           *)
(*   SpecConcurrent  build_image with the start-of-run cleanup of a second *)
(*                   invocation running on the same host.                  *)
(*   SpecStore       store.upload_image (with _prune_old_images) and       *)
(*                   store.get_latest_build_id against one image name.     *)
(*   SpecCloud       OpenstackManager.upload_image (pruning first) and the *)
(*                   two get-latest functions against one image name.      *)
(*   SpecShasums     the SHA256SUMS file parsed and looked up.             *)
(*   SpecChecksum    _validate_checksum reading a file chunk by chunk.     *)
(*   SpecCliRun      cli.run: build_image, store.upload_image, callback.   *)
(*   SpecTwoUploads  two store.upload_image calls at the same time.        *)
(*   SpecFlavor      openstack_builder._determine_flavor on its inputs.    *)
(*   SpecExternal    openstack_builder.run with store.create_snapshot and  *)
(*                   store.upload_image.                                   *)
(*   SpecExternalLive  SpecExternal where every remote call returns.       *)
(*   SpecShared      openstack_builder.initialize, called repeatedly.      *)
(*   SpecLive        Spec where every call that has a timeout returns.     *)
(*   SpecLiveDownload  SpecLive where the download returns as well.        *)
(***************************************************************************)
EXTENDS Integers, Sequences, FiniteSets, TLC

VARIABLES
    pc,               \* position in build_image ("done"/"raised" when it has left)
    run,              \* number of the current build_image invocation on this host
    arch,             \* argument arch of build_image
    base_image,       \* argument base_image of build_image
    raised,           \* error chain that escaped build_image, outermost first
    pending,          \* error raised inside the with-block, propagating through __exit__
    binds,            \* which of IMAGE_MOUNT_DIR/{dev,proc,sys} are bind-mounted
    mounted,          \* IMAGE_MOUNT_DIR is a mounted file system
    attached,         \* /dev/nbd0 is connected to an image
    chrooted,         \* the process root is IMAGE_MOUNT_DIR
    fileDigest,       \* sha256 of the image file downloaded by this run ("none": not yet)
    shasums,          \* local shasums of _download_and_validate_image
    resized,          \* qemu-img resize has been applied to the image file
    partResized,      \* growpart + resize2fs have been applied
    yqInstalled,      \* yq copied to MOUNTED_YQ_BIN_PATH
    resolvReplaced,   \* MOUNTED_RESOLV_CONF_PATH replaced by the host file
    compressed,       \* IMAGE_OUTPUT_PATH written by virt-sparsify
    started,          \* steps of build_image started in this run
    completed,        \* steps of build_image that returned without raising in this run
    failed,           \* the step whose error left build_image ("none")
    attempts,         \* per retry-wrapped operation: calls of the wrapped function
    checksumCalls,    \* calls of _validate_checksum in this run
    cleanupIssued,    \* cleanup commands issued by the start-of-run cleanup
    cleanupFaithful,  \* no cleanup command failed while its target existed
    cleanupAllNonzero,\* every cleanup command issued so far exited non-zero
    hostCleanAtStart, \* the host was Clean when this run started
    prevCleanupQuiet, \* the previous run's cleanup ran on a Clean host, all commands non-zero,
                      \* and that run left the host as the cleanup had left it
    unbindAttempted,  \* binds for which ChrootContextManager's exit issued an unbind
    pcB,              \* position of a second build_image invocation running on the same
                      \* host at the same time ("absent": there is none)
    registry,         \* the images named image_name in the cloud: [id, created_at]
    spc,              \* position in store.upload_image ("idle": no call in progress)
    num_revisions,    \* argument keep_revisions of the upload_image call
    image,            \* id of the image made by create_image in this call ("none")
    images_to_prune,  \* what the for loop of _prune_old_images has still to visit
    lastCall,         \* the store function called last: "none", "upload", "latest"
    result,           \* what the last upload_image call returned ("none": nothing)
    latest,           \* what get_latest_build_id returned since ("unknown": not called)
    sraised,          \* error chain that escaped that call, outermost first
    snapshot,         \* images as sorted by _prune_old_images in this call
    deleteAttempted,  \* ids passed to connection.delete_image in this call
    uploads,          \* upload_image calls made so far
    shasum_contents,  \* text of the SHA256SUMS file, a sequence of characters
    lookup_name,      \* image file name looked up (image_path_str)
    mpc,              \* position in these lines of _download_and_validate_image
    manifest,         \* the dictionary returned by _fetch_shasums
    expected,         \* shasums[image_path_str] (<<>>: none)
    lookup_error,     \* message of the BaseImageDownloadError of the lookup ("": none)
    content,          \* bytes of the file given to _validate_checksum
    expected_digest,\* argument expected_digest
    vpc,              \* position in _validate_checksum
    offset,           \* bytes of the file read so far
    sha256,           \* state of the hash object: what update has absorbed
    valid,            \* what _validate_checksum returned
    rpc,              \* position in cli.run ("absent": the CLI action is not running)
    callback_script,  \* option --callback-script was given
    experimental_external, \* option --experimental-external
    image_id,         \* local image_id of cli.run ("none": not assigned)
    callbacks,        \* argument lists of the subprocess.check_call calls of cli.run
    rraised,          \* error chain that escaped cli.run
    spcB,             \* position in a second store.upload_image call made by another
                      \* process at the same time ("absent": there is none)
    imageB,           \* id of the image that call created ("none")
    pruneB,           \* what its for loop has still to visit
    resultB,          \* what it returned ("none": nothing)
    sraisedB,         \* error chain that escaped it
    snapshotB,        \* images as sorted by its _prune_old_images
    deleteAttemptedB, \* ids it passed to connection.delete_image
    xpc,              \* position in openstack_builder.run ("absent": it is not called)
    upload_cloud_name,\* cloud_config.upload_cloud_name is given
    keep_revisions,   \* argument keep_revisions of openstack_builder.run
    builder,          \* id of the server returned by conn.create_server ("none")
    deletedServers,   \* ids passed to conn.delete_server
    ciAttempts,       \* calls of the function wrapped as _wait_for_cloud_init_complete
    sshAttempts,      \* calls of the function wrapped as _get_ssh_connection made by
                      \* the current call of _wait_for_cloud_init_complete
    ciResult,         \* result of the last "cloud-init status --wait" ("unset")
    ximage,           \* id of the local image of openstack_builder.run ("none")
    seen,             \* image statuses seen by the polls of _wait_for_snapshot_complete
    xraised,          \* error chain that escaped openstack_builder.run
    xresult,          \* what openstack_builder.run returned ("none")
    flavors,          \* what conn.list_flavors() returns
    flavor_name,      \* argument flavor_name of _determine_flavor ("": none given)
    fpc,              \* "call" before _determine_flavor is applied on its own, "end" after
    flavor,           \* what _determine_flavor returned (id) or raised
    ipc,              \* position in openstack_builder.initialize ("absent")
    initCalls,        \* calls of openstack_builder.initialize started so far
    keypair,          \* generation of the keypair BUILDER_SSH_KEY_NAME in the cloud (0: none)
    key_file,         \* generation of the private key in BUILDER_KEY_PATH (0: no file)
    security_group,   \* SHARED_SECURITY_GROUP_NAME exists in the cloud
    rules,            \* the rules of that security group
    calls,            \* connection calls made by the current initialize
    atReturn,         \* the shared resources as the first initialize that returned left them
    iraised           \* error chain that escaped the last initialize

ctl   == <<pc, run, arch, base_image, raised, pending>>
host  == <<binds, mounted, attached, chrooted>>
files == <<fileDigest, shasums, resized, partResized, yqInstalled,
           resolvReplaced, compressed>>
hist  == <<started, completed, failed, attempts, checksumCalls, cleanupIssued,
           cleanupFaithful, cleanupAllNonzero, hostCleanAtStart, prevCleanupQuiet,
           unbindAttempted>>
\* what lies outside the build_image invocation followed by pc
cloud     == <<registry, spc, num_revisions, image, images_to_prune, lastCall, result,
               latest, sraised, snapshot, deleteAttempted, uploads>>
\* the checksum functions of builder.py taken on their own
checks    == <<shasum_contents, lookup_name, mpc, manifest, expected, lookup_error,
               content, expected_digest, vpc, offset, sha256, valid>>
\* the CLI action run around build_image and upload_image
clirun    == <<rpc, callback_script, experimental_external, image_id, callbacks, rraised>>
\* a second upload_image call
uploadB   == <<spcB, imageB, pruneB, resultB, sraisedB, snapshotB, deleteAttemptedB>>
\* openstack_builder.run
extrun    == <<xpc, upload_cloud_name, keep_revisions, builder, deletedServers, ciAttempts,
               sshAttempts, ciResult, ximage, seen, xraised, xresult>>
\* _determine_flavor and its inputs
flavorsel == <<flavors, flavor_name, fpc, flavor>>
\* openstack_builder.initialize and the shared builder resources
shared    == <<ipc, initCalls, keypair, key_file, security_group, rules, calls, atReturn,
               iraised>>
\* the external builder
ext       == <<extrun, flavorsel, shared>>
elsewhere == <<pcB, cloud, checks, clirun, uploadB, ext>>
vars  == <<ctl, host, files, hist, elsewhere>>

(***************************************************************************)
(* Bounds                                                                  *)
(***************************************************************************)
MaxRuns == 2
MaxImages  == 3     \* images of the name in the cloud before the first call
MaxKeep    == 2     \* largest keep_revisions passed
MaxUploads == 2     \* upload_image calls

(***************************************************************************)
(* Program constants                                                       *)
(***************************************************************************)
DOWNLOAD_TRIES == 3
FETCH_TRIES    == 3
MOUNT_TRIES    == 5
YQ_TRIES       == 3
\* as COMPRESS_TRIES, but the decorator of _compress_image was copied from _install_yq
COMPRESS_TRIES_asYq == YQ_TRIES

COMPRESS_TRIES == 5

Binds    == {"dev", "proc", "sys"}
Archs    == {"x64", "arm64", "other"}      \* "other": any value that is not an Arch member
Bases    == {"jammy", "noble"}
BinArchs == {"amd64", "arm64"}
Digests  == {"d1", "d2"}
FileNames == Bases \X BinArchs
NoShasums == [f \in {} |-> "d1"]
\* the SHA256SUMS file of a base lists image files of that base
Manifests(b) == UNION {[D -> Digests] : D \in SUBSET ({b} \X BinArchs)}

Outcomes == {"ok", "nonzero", "timeout"}
RetryOps == {"download", "fetch", "mount", "yq", "compress"}

\* exit status of a command whose effect is possible only when canSucceed
Possible(canSucceed) == IF canSucceed THEN Outcomes ELSE {"nonzero", "timeout"}

\* the subprocess exception of a failed must-succeed command
Cause(o) == IF o = "nonzero" THEN "CalledProcessError" ELSE "TimeoutExpired"

Clean == binds = {} /\ ~mounted /\ ~attached

(***************************************************************************)
(* retry decorator: another call is made while fewer than tries calls      *)
(* have been made; afterwards the last error propagates unchanged.         *)
(***************************************************************************)
retry(made, tries) == made < tries

_get_supported_runner_arch(a) ==
    CASE a = "x64"   -> "amd64"
      [] a = "arm64" -> "arm64"
      [] OTHER       -> "UnsupportedArchitectureError"

image_path_str(b, bin_arch) == <<b, bin_arch>>

_validate_checksum(digest, expected_checksum) == digest = expected_checksum

(***************************************************************************)
(* Leaving build_image                                                     *)
(***************************************************************************)
\* an error raised outside the try block of build_image escapes as it is
Escape(chain, step) ==
    /\ pc' = "raised"
    /\ raised' = chain
    /\ failed' = step

\* the except clause of build_image: only ChrootBaseError is converted
build_image_except(chain) ==
    IF Head(chain) = "ChrootBaseError" THEN <<"BuildImageError">> \o chain ELSE chain

\* the host and the first invocation before any command has run
Fresh ==
    /\ run = 1
    /\ arch \in Archs
    /\ base_image \in Bases
    /\ raised = <<>>
    /\ pending = <<>>
    /\ binds \in SUBSET Binds
    /\ mounted \in BOOLEAN
    /\ attached \in BOOLEAN
    /\ chrooted = FALSE
    /\ fileDigest = "none"
    /\ shasums = NoShasums
    /\ resized = FALSE
    /\ partResized = FALSE
    /\ yqInstalled = FALSE
    /\ resolvReplaced = FALSE
    /\ compressed = FALSE
    /\ started = {}
    /\ completed = {}
    /\ failed = "none"
    /\ attempts = [op \in RetryOps |-> 0]
    /\ checksumCalls = 0
    /\ cleanupIssued = 0
    /\ cleanupFaithful = TRUE
    /\ cleanupAllNonzero = TRUE
    /\ hostCleanAtStart = Clean
    /\ prevCleanupQuiet = FALSE
    /\ unbindAttempted = {}

\* no store function is called
NoCloud ==
    /\ registry = {}
    /\ spc = "idle"
    /\ num_revisions = 0
    /\ image = "none"
    /\ images_to_prune = <<>>
    /\ lastCall = "none"
    /\ result = "none"
    /\ latest = "unknown"
    /\ sraised = <<>>
    /\ snapshot = <<>>
    /\ deleteAttempted = {}
    /\ uploads = 0

\* no SHA256SUMS file is parsed on its own
NoManifest ==
    /\ shasum_contents = <<>>
    /\ lookup_name = <<>>
    /\ mpc = "idle"
    /\ manifest = NoShasums
    /\ expected = <<>>
    /\ lookup_error = ""

\* no file is checked on its own
NoFile ==
    /\ content = <<>>
    /\ expected_digest = ""
    /\ vpc = "idle"
    /\ offset = 0
    /\ sha256 = 0
    /\ valid = FALSE

\* build_image is not called from cli.run
NoCliRun ==
    /\ rpc = "absent"
    /\ callback_script = FALSE
    /\ experimental_external = FALSE
    /\ image_id = "none"
    /\ callbacks = <<>>
    /\ rraised = <<>>

\* no second process uploads
NoUploadB ==
    /\ spcB = "absent"
    /\ imageB = "none"
    /\ pruneB = <<>>
    /\ resultB = "none"
    /\ sraisedB = <<>>
    /\ snapshotB = <<>>
    /\ deleteAttemptedB = {}

\* openstack_builder.run is not called
NoExternalRun ==
    /\ xpc = "absent"
    /\ upload_cloud_name = FALSE
    /\ keep_revisions = 0
    /\ builder = "none"
    /\ deletedServers = {}
    /\ ciAttempts = 0
    /\ sshAttempts = 0
    /\ ciResult = "unset"
    /\ ximage = "none"
    /\ seen = <<>>
    /\ xraised = <<>>
    /\ xresult = "none"

\* _determine_flavor has neither returned an id nor raised
NoFlavor == [id |-> "none", raised |-> "none"]

\* _determine_flavor is not applied on its own
NoFlavors ==
    /\ flavors = <<>>
    /\ flavor_name = ""
    /\ fpc = "idle"
    /\ flavor = NoFlavor

\* openstack_builder.initialize is not called
NoShared ==
    /\ ipc = "absent"
    /\ initCalls = 0
    /\ keypair = 0
    /\ key_file = 0
    /\ security_group = FALSE
    /\ rules = {}
    /\ calls = <<>>
    /\ atReturn = <<>>
    /\ iraised = <<>>

\* the external builder is not used
NoExt == NoExternalRun /\ NoFlavors /\ NoShared

\* a single invocation, and no store function is called
Alone == pcB = "absent" /\ NoCloud /\ NoManifest /\ NoFile /\ NoCliRun /\ NoUploadB /\ NoExt

Init ==
    /\ pc = "umount_dev"
    /\ Fresh
    /\ Alone

(***************************************************************************)
(* Start-of-run cleanup: _unmount_build_path                               *)
(***************************************************************************)
\* one subprocess.run(["/usr/bin/umount", target], timeout=30, check=False)
\* exists: the target is mounted; free: the umount can succeed
\* as UmountRun, but run with check=True
UmountRun_checked(here, next, exists, free, o) ==
    /\ pc = here
    /\ o \in Possible(exists /\ free)
    /\ started' = started \cup {"cleanup"}
    /\ cleanupIssued' = cleanupIssued + 1
    /\ cleanupFaithful' = (cleanupFaithful /\ (exists => o = "ok"))
    /\ cleanupAllNonzero' = (cleanupAllNonzero /\ o = "nonzero")
    /\ IF o # "ok"
       THEN /\ pc' = "raised"
            /\ raised' = <<"UnmountBuildPathError", Cause(o)>>
            /\ failed' = "cleanup"
       ELSE pc' = next /\ UNCHANGED <<raised, failed>>
    /\ UNCHANGED <<elsewhere, run, arch, base_image, pending, chrooted, attached, files,
                   completed, attempts, checksumCalls, hostCleanAtStart, prevCleanupQuiet,
                   unbindAttempted>>

UmountRun(here, next, exists, free, o) ==
    /\ pc = here
    /\ o \in Possible(exists /\ free)
    /\ started' = started \cup {"cleanup"}
    /\ cleanupIssued' = cleanupIssued + 1
    /\ cleanupFaithful' = (cleanupFaithful /\ (exists => o = "ok"))
    /\ cleanupAllNonzero' = (cleanupAllNonzero /\ o = "nonzero")
    /\ IF o = "timeout"
       THEN Escape(<<"UnmountBuildPathError", "TimeoutExpired">>, "cleanup")
       ELSE pc' = next /\ UNCHANGED <<raised, failed>>
    /\ UNCHANGED <<elsewhere, run, arch, base_image, pending, chrooted, attached, files,
                   completed, attempts, checksumCalls, hostCleanAtStart, prevCleanupQuiet,
                   unbindAttempted>>

UmountBind(here, next, b) ==
    \E o \in Outcomes :
        /\ UmountRun(here, next, b \in binds, TRUE, o)
        /\ binds' = IF o = "ok" THEN binds \ {b} ELSE binds
        /\ UNCHANGED mounted

\* as UmountDev, but the mount directory is unmounted right after dev
UmountDev_thenMountDir == UmountBind("umount_dev", "umount_mountdir", "dev")

UmountDev  == UmountBind("umount_dev", "umount_proc", "dev")
UmountProc == UmountBind("umount_proc", "umount_sys", "proc")
\* as UmountSys, but the umount names a path that is never a mount point
UmountSys_wrongPath == UmountBind("umount_sys", "umount_mountdir", "sys_")

UmountSys  == UmountBind("umount_sys", "umount_mountdir", "sys")

\* umount of the mount directory is refused (busy) while a bind is mounted below it
UmountMountDir ==
    \E o \in Outcomes :
        /\ UmountRun("umount_mountdir", "umount_nbd", mounted, binds = {}, o)
        /\ mounted' = IF o = "ok" THEN FALSE ELSE mounted
        /\ UNCHANGED binds

\* no file system is ever mounted from the whole device
UmountNbd ==
    \E o \in Outcomes :
        /\ UmountRun("umount_nbd", "umount_nbdp1", FALSE, TRUE, o)
        /\ UNCHANGED <<binds, mounted>>

\* umount by source device: the file system mounted on the mount directory
UmountNbdP1 ==
    \E o \in Outcomes :
        /\ UmountRun("umount_nbdp1", "cdisc_nbd", mounted, binds = {}, o)
        /\ mounted' = IF o = "ok" THEN FALSE ELSE mounted
        /\ UNCHANGED binds


(***************************************************************************)
(* _disconnect_image_to_network_block_device(check)                        *)
(***************************************************************************)
\* one subprocess.run(["/usr/bin/qemu-nbd", "--disconnect", dev], check=check, timeout=30)
\* CalledProcessError exists only under check=True; TimeoutExpired is a
\* SubprocessError and is converted whatever check is.
DisconnectRun(here, next, check, step, o) ==
    /\ pc = here
    /\ o \in Outcomes
    /\ attached' = IF o = "ok" THEN FALSE ELSE attached
    /\ started' = started \cup {step}
    /\ IF o = "timeout" \/ (o = "nonzero" /\ check)
       THEN Escape(<<"ImageConnectError", Cause(o)>>, step)
       ELSE pc' = next /\ UNCHANGED <<raised, failed>>
    /\ IF step = "cleanup"
       THEN /\ cleanupIssued' = cleanupIssued + 1
            /\ cleanupFaithful' = (cleanupFaithful /\ (attached => o = "ok"))
            /\ cleanupAllNonzero' = (cleanupAllNonzero /\ o = "nonzero")
       ELSE UNCHANGED <<cleanupIssued, cleanupFaithful, cleanupAllNonzero>>
    /\ UNCHANGED <<elsewhere, run, arch, base_image, pending, binds, mounted, chrooted, files,
                   attempts, checksumCalls, hostCleanAtStart, prevCleanupQuiet,
                   unbindAttempted>>

\* as CleanupDisconnectNbd, but called with check=True
CleanupDisconnectNbd_checked ==
    \E o \in Outcomes :
        /\ DisconnectRun("cdisc_nbd", "cdisc_nbdp1", TRUE, "cleanup", o)
        /\ UNCHANGED completed

CleanupDisconnectNbd ==
    \E o \in Outcomes :
        /\ DisconnectRun("cdisc_nbd", "cdisc_nbdp1", FALSE, "cleanup", o)
        /\ UNCHANGED completed

CleanupDisconnectNbdP1 ==
    \E o \in Outcomes :
        /\ DisconnectRun("cdisc_nbdp1", "get_arch", FALSE, "cleanup", o)
        /\ completed' = IF o = "timeout" THEN completed ELSE completed \cup {"cleanup"}

DetachNbd ==
    \E o \in Outcomes :
        /\ DisconnectRun("ddisc_nbd", "ddisc_nbdp1", TRUE, "detach", o)
        /\ UNCHANGED completed

\* as DetachNbdP1, but called with check=False
DetachNbdP1_unchecked ==
    \E o \in Outcomes :
        /\ DisconnectRun("ddisc_nbdp1", "compress", FALSE, "detach", o)
        /\ completed' = IF o = "ok" THEN completed \cup {"detach"} ELSE completed

DetachNbdP1 ==
    \E o \in Outcomes :
        /\ DisconnectRun("ddisc_nbdp1", "compress", TRUE, "detach", o)
        /\ completed' = IF o = "ok" THEN completed \cup {"detach"} ELSE completed

(***************************************************************************)
(* Steps after the cleanup                                                 *)
(***************************************************************************)
cleanupHist == <<cleanupIssued, cleanupFaithful, cleanupAllNonzero, hostCleanAtStart,
                 prevCleanupQuiet>>

Ok(next, doneSteps) ==
    /\ pc' = next
    /\ completed' = completed \cup doneSteps
    /\ UNCHANGED <<raised, failed>>

Fail(chain, label) ==
    /\ Escape(chain, label)
    /\ UNCHANGED completed

\* a retry-wrapped call is made: the wrapper counts it
Call(op) == attempts[op] + 1

\* the call failed: call again or let the error propagate
RetryOrFail(op, tries, chain, label) ==
    /\ attempts' = [attempts EXCEPT ![op] = Call(op)]
    /\ IF retry(Call(op), tries)
       THEN UNCHANGED <<pc, raised, failed, completed>>
       ELSE Fail(chain, label)

\* the call returned: the wrapper and its counter are gone
Returned(op) == attempts' = [attempts EXCEPT ![op] = 0]

\* IMAGE_MOUNT_DIR.mkdir, then _get_supported_runner_arch
GetArch ==
    /\ pc = "get_arch"
    /\ started' = started \cup {"download_validate"}
    /\ IF _get_supported_runner_arch(arch) = "UnsupportedArchitectureError"
       THEN Fail(<<"BaseImageDownloadError", "UnsupportedArchitectureError">>, "arch")
       ELSE Ok("download", {})
    /\ UNCHANGED <<elsewhere, run, arch, base_image, pending, host, files, attempts, checksumCalls,
                   cleanupHist, unbindAttempted>>

_download_base_image ==
    /\ pc = "download"
    /\ started' = started \cup {"download"}
    /\ \/ /\ fileDigest' \in Digests
          /\ Returned("download")
          /\ Ok("fetch", {"download"})
       \/ /\ RetryOrFail("download", DOWNLOAD_TRIES,
                         <<"BaseImageDownloadError", "URLError">>, "download")
          /\ UNCHANGED fileDigest
    /\ UNCHANGED <<elsewhere, run, arch, base_image, pending, host, shasums, resized, partResized,
                   yqInstalled, resolvReplaced, compressed,
                   checksumCalls, cleanupHist, unbindAttempted>>

_fetch_shasums ==
    /\ pc = "fetch"
    /\ started' = started \cup {"fetch"}
    /\ \/ /\ shasums' \in Manifests(base_image)
          /\ Returned("fetch")
          /\ Ok("lookup", {"fetch"})
       \/ /\ RetryOrFail("fetch", FETCH_TRIES,
                         <<"BaseImageDownloadError", "RequestException">>, "fetch")
          /\ UNCHANGED shasums
    /\ UNCHANGED <<elsewhere, run, arch, base_image, pending, host, fileDigest, resized, partResized,
                   yqInstalled, resolvReplaced, compressed,
                   checksumCalls, cleanupHist, unbindAttempted>>

\* if image_path_str not in shasums: raise
LookupShasum ==
    /\ pc = "lookup"
    /\ IF image_path_str(base_image, _get_supported_runner_arch(arch)) \notin DOMAIN shasums
       THEN Fail(<<"BaseImageDownloadError">>, "manifest_lookup")
       ELSE Ok("validate", {})
    /\ UNCHANGED <<elsewhere, run, arch, base_image, pending, host, files, started, attempts,
                   checksumCalls, cleanupHist, unbindAttempted>>

\* as ValidateChecksum, but the result of _validate_checksum is not looked at
ValidateChecksum_ignored ==
    /\ pc = "validate"
    /\ checksumCalls' = checksumCalls + 1
    /\ started' = started \cup {"checksum"}
    /\ pc' = "resize_image"
    /\ completed' = completed \cup {"download_validate"}
    /\ shasums' = [f \in {} |-> "d1"]
    /\ UNCHANGED <<raised, failed>>
    /\ UNCHANGED <<elsewhere, run, arch, base_image, pending, host, fileDigest, resized, partResized,
                   yqInstalled, resolvReplaced, compressed, attempts,
                   cleanupIssued, cleanupFaithful, cleanupAllNonzero, hostCleanAtStart,
                   prevCleanupQuiet, unbindAttempted>>

\* as ValidateChecksum, but a mismatch downloads the image again
ValidateChecksum_retried ==
    /\ pc = "validate"
    /\ checksumCalls' = checksumCalls + 1
    /\ started' = started \cup {"checksum"}
    /\ IF fileDigest = shasums[<<base_image, _get_supported_runner_arch(arch)>>]
       THEN /\ pc' = "resize_image"
            /\ completed' = completed \cup {"download_validate"}
            /\ shasums' = [f \in {} |-> "d1"]
       ELSE /\ pc' = "download"
            /\ UNCHANGED <<completed, shasums>>
    /\ UNCHANGED <<raised, failed>>
    /\ UNCHANGED <<elsewhere, run, arch, base_image, pending, host, fileDigest, resized, partResized,
                   yqInstalled, resolvReplaced, compressed, attempts,
                   cleanupIssued, cleanupFaithful, cleanupAllNonzero, hostCleanAtStart,
                   prevCleanupQuiet, unbindAttempted>>

\* if not _validate_checksum(...): raise; else return image_path
ValidateChecksum ==
    /\ pc = "validate"
    /\ checksumCalls' = checksumCalls + 1
    /\ started' = started \cup {"checksum"}
    /\ IF _validate_checksum(fileDigest,
              shasums[image_path_str(base_image, _get_supported_runner_arch(arch))])
       THEN Ok("resize_image", {"download_validate"}) /\ shasums' = NoShasums
       ELSE Fail(<<"BaseImageDownloadError">>, "checksum") /\ UNCHANGED shasums
    /\ UNCHANGED <<elsewhere, run, arch, base_image, pending, host, fileDigest, resized, partResized,
                   yqInstalled, resolvReplaced, compressed, attempts,
                   cleanupHist, unbindAttempted>>

\* as _resize_image, but with the except clause for CalledProcessError only
_resize_image_onlyCalledProcessError ==
    /\ pc = "resize_image"
    /\ started' = started \cup {"image_resize"}
    /\ \E o \in Outcomes :
        CASE o = "ok" -> Ok("connect", {"image_resize"}) /\ resized' = TRUE
          [] o = "nonzero" ->
               Fail(<<"ImageResizeError", Cause(o)>>, "image_resize") /\ UNCHANGED resized
          [] o = "timeout" -> Fail(<<Cause(o)>>, "image_resize") /\ UNCHANGED resized
    /\ UNCHANGED <<elsewhere, run, arch, base_image, pending, host, fileDigest, shasums, partResized,
                   yqInstalled, resolvReplaced, compressed, attempts,
                   checksumCalls, cleanupHist, unbindAttempted>>

_resize_image ==
    /\ pc = "resize_image"
    /\ started' = started \cup {"image_resize"}
    /\ \E o \in Outcomes :
        IF o = "ok"
        THEN Ok("connect", {"image_resize"}) /\ resized' = TRUE
        ELSE Fail(<<"ImageResizeError", Cause(o)>>, "image_resize") /\ UNCHANGED resized
    /\ UNCHANGED <<elsewhere, run, arch, base_image, pending, host, fileDigest, shasums, partResized,
                   yqInstalled, resolvReplaced, compressed, attempts,
                   checksumCalls, cleanupHist, unbindAttempted>>

\* qemu-nbd --connect=/dev/nbd0: refused while the device is connected
ConnectNbd ==
    /\ pc = "connect"
    /\ started' = started \cup {"attach"}
    /\ \E o \in Possible(~attached) :
        IF o = "ok"
        THEN Ok("mount", {"attach"}) /\ attached' = TRUE
        ELSE Fail(<<"ImageConnectError", Cause(o)>>, "attach") /\ UNCHANGED attached
    /\ UNCHANGED <<elsewhere, run, arch, base_image, pending, binds, mounted, chrooted, files,
                   attempts, checksumCalls, cleanupHist, unbindAttempted>>

\* as _mount_network_block_device_partition, but a mount that failed is passed over
_mount_network_block_device_partition_unchecked ==
    /\ pc = "mount"
    /\ started' = started \cup {"mount"}
    /\ \E o \in Possible(attached /\ ~mounted) :
        /\ Ok("growpart", {"mount"})
        /\ mounted' = (mounted \/ o = "ok")
        /\ Returned("mount")
    /\ UNCHANGED <<elsewhere, run, arch, base_image, pending, binds, attached, chrooted, files,
                   checksumCalls, cleanupHist, unbindAttempted>>

\* mount -o rw /dev/nbd0p1 /mnt/ubuntu-image under retry(tries=5), called from
\* _connect_image_to_network_block_device, which converts the last error
_mount_network_block_device_partition ==
    /\ pc = "mount"
    /\ started' = started \cup {"mount"}
    /\ \E o \in Possible(attached /\ ~mounted) :
        IF o = "ok"
        THEN Ok("growpart", {"mount"}) /\ mounted' = TRUE /\ Returned("mount")
        ELSE /\ RetryOrFail("mount", MOUNT_TRIES, <<"ImageConnectError", Cause(o)>>, "mount")
             /\ UNCHANGED mounted
    /\ UNCHANGED <<elsewhere, run, arch, base_image, pending, binds, attached, chrooted, files,
                   checksumCalls, cleanupHist, unbindAttempted>>

\* as Growpart, but a failed growpart is run again
Growpart_retried ==
    /\ pc = "growpart"
    /\ started' = started \cup {"partition_resize"}
    /\ \E o \in Outcomes :
        IF o = "ok"
        THEN /\ pc' = "resize2fs"
             /\ UNCHANGED <<completed, raised, failed>>
        ELSE UNCHANGED <<pc, completed, raised, failed>>
    /\ UNCHANGED <<elsewhere, run, arch, base_image, pending, host, files, attempts, checksumCalls,
                   cleanupIssued, cleanupFaithful, cleanupAllNonzero, hostCleanAtStart,
                   prevCleanupQuiet, unbindAttempted>>

Growpart ==
    /\ pc = "growpart"
    /\ started' = started \cup {"partition_resize"}
    /\ \E o \in Outcomes :
        IF o = "ok"
        THEN Ok("resize2fs", {})
        ELSE Fail(<<"ResizePartitionError", Cause(o)>>, "partition_resize")
    /\ UNCHANGED <<elsewhere, run, arch, base_image, pending, host, files, attempts, checksumCalls,
                   cleanupHist, unbindAttempted>>

Resize2fs ==
    /\ pc = "resize2fs"
    /\ \E o \in Outcomes :
        IF o = "ok"
        THEN Ok("install_yq", {"partition_resize"}) /\ partResized' = TRUE
        ELSE /\ Fail(<<"ResizePartitionError", Cause(o)>>, "partition_resize")
             /\ UNCHANGED partResized
    /\ UNCHANGED <<elsewhere, run, arch, base_image, pending, host, fileDigest, shasums, resized,
                   yqInstalled, resolvReplaced, compressed, started, attempts,
                   checksumCalls, cleanupHist, unbindAttempted>>

\* git clone (or pull when the repository exists), go build, copy to the mounted
\* path; the whole function is under retry(tries=3).
\* failAt: 0 none, 1 the git command, 2 go build
_install_yq ==
    /\ pc = "install_yq"
    /\ started' = started \cup {"yq"}
    /\ \E failAt \in 0..2, o \in {"nonzero", "timeout"} :
        /\ IF failAt = 0
           THEN Ok("resolv", {"yq"}) /\ yqInstalled' = TRUE /\ Returned("yq")
           ELSE /\ RetryOrFail("yq", YQ_TRIES, <<"YQBuildError", Cause(o)>>, "yq")
                /\ UNCHANGED yqInstalled
    /\ UNCHANGED <<elsewhere, run, arch, base_image, pending, host, fileDigest, shasums, resized,
                   partResized, resolvReplaced, compressed, checksumCalls, cleanupHist,
                   unbindAttempted>>

\* as _replace_mounted_resolv_conf, but an OSError of the copy is suppressed
_replace_mounted_resolv_conf_suppressed ==
    /\ pc = "resolv"
    /\ started' = started \cup {"resolv"}
    /\ pc' = "chroot_enter"
    /\ \/ completed' = completed \cup {"resolv"} /\ resolvReplaced' = TRUE
       \/ UNCHANGED <<completed, resolvReplaced>>
    /\ UNCHANGED <<raised, failed>>
    /\ UNCHANGED <<elsewhere, run, arch, base_image, pending, host, fileDigest, shasums, resized,
                   partResized, yqInstalled, compressed, attempts, checksumCalls,
                   cleanupIssued, cleanupFaithful, cleanupAllNonzero, hostCleanAtStart,
                   prevCleanupQuiet, unbindAttempted>>

\* unlink(missing_ok=True) then shutil.copy; an OSError of the copy is not caught
_replace_mounted_resolv_conf ==
    /\ pc = "resolv"
    /\ started' = started \cup {"resolv"}
    /\ \/ Ok("chroot_enter", {"resolv"}) /\ resolvReplaced' = TRUE
       \/ Fail(<<"OSError">>, "resolv") /\ UNCHANGED resolvReplaced
    /\ UNCHANGED <<elsewhere, run, arch, base_image, pending, host, fileDigest, shasums, resized,
                   partResized, yqInstalled, compressed, attempts, checksumCalls,
                   cleanupHist, unbindAttempted>>


(***************************************************************************)
(* ChrootContextManager: bind dev, proc, sys, then change root; on exit    *)
(* restore the root, then unbind each path, each unbind attempted.         *)
(***************************************************************************)
BindOrder == <<"dev", "proc", "sys">>

\* k binds succeed before one fails (k = 3: all succeed and the root changes).
\* A failed entry raises ChrootBaseError inside the try block; of the binds
\* that succeeded any subset may be left behind.
ChrootEnter ==
    /\ pc = "chroot_enter"
    /\ started' = started \cup {"chroot_enter"}
    /\ \E k \in 0..3 :
        IF k = 3
        THEN /\ binds' = binds \cup Binds
             /\ chrooted' = TRUE
             /\ Ok("apt_update", {"chroot_enter"})
        ELSE /\ \E left \in SUBSET {BindOrder[i] : i \in 1..k} : binds' = binds \cup left
             /\ UNCHANGED chrooted
             /\ Fail(build_image_except(<<"ChrootBaseError", "CalledProcessError">>),
                     "chroot_enter")
    /\ UNCHANGED <<elsewhere, run, arch, base_image, pending, mounted, attached, files, attempts,
                   checksumCalls, cleanupHist, unbindAttempted>>

\* the error of a failed command of the with-block: the step functions convert the
\* subprocess error into their typed error, the two check_output calls made by
\* build_image itself ("raw") do not
InChrootChain(typed, o) == IF typed = "raw" THEN <<Cause(o)>> ELSE <<typed, Cause(o)>>

\* as InChroot, but the step is run outside the with-block: its error leaves
\* build_image without passing through __exit__
InChroot_outsideWith(here, next, label, typed) ==
    /\ pc = here
    /\ started' = started \cup {label}
    /\ \E o \in Outcomes :
        IF o = "ok"
        THEN /\ pc' = next
             /\ completed' = completed \cup {label}
             /\ UNCHANGED <<raised, failed>>
        ELSE /\ pc' = "raised"
             /\ raised' = InChrootChain(typed, o)
             /\ failed' = label
             /\ UNCHANGED completed
    /\ UNCHANGED <<elsewhere, run, arch, base_image, pending, host, files, attempts, checksumCalls,
                   cleanupIssued, cleanupFaithful, cleanupAllNonzero, hostCleanAtStart,
                   prevCleanupQuiet, unbindAttempted>>

\* a step of the with-block: on failure the error propagates through __exit__
InChroot(here, next, label, typed) ==
    /\ pc = here
    /\ started' = started \cup {label}
    /\ \E o \in Outcomes :
        IF o = "ok"
        THEN /\ pc' = next
             /\ completed' = completed \cup {label}
             /\ UNCHANGED <<pending, failed>>
        ELSE /\ pc' = "chroot_exit"
             /\ pending' = InChrootChain(typed, o)
             /\ failed' = label
             /\ UNCHANGED completed
    /\ UNCHANGED <<elsewhere, run, arch, base_image, raised, host, files, attempts, checksumCalls,
                   cleanupHist, unbindAttempted>>

AptUpdate  == InChroot("apt_update", "apt_install", "apt_update", "raw")
AptInstall == InChroot("apt_install", "disable_upgrades", "apt_install", "raw")
_disable_unattended_upgrades ==
    InChroot("disable_upgrades", "configure_users", "disable_upgrades",
             "UnattendedUpgradeDisableError")
_configure_system_users ==
    InChroot("configure_users", "configure_bin", "configure_users",
             "SystemUserConfigurationError")
_configure_usr_local_bin ==
    InChroot("configure_bin", "install_yarn", "configure_bin",
             "PermissionConfigurationError")
_install_yarn ==
    InChroot("install_yarn", "chroot_exit", "install_yarn", "YarnInstallError")

\* __exit__: the root is restored, every unbind is attempted, unbound is the
\* set that succeeded.  An error of the with-block propagates unmasked; with
\* no such error a failed unbind is either only logged or raised aggregated.
ChrootExit ==
    /\ pc = "chroot_exit"
    /\ started' = started \cup {"chroot_exit"}
    /\ chrooted' = FALSE
    /\ unbindAttempted' = Binds
    /\ \E unbound \in SUBSET Binds :
        /\ binds' = binds \ unbound
        /\ IF pending # <<>>
           THEN /\ pc' = "raised"
                /\ raised' = build_image_except(pending)
                /\ UNCHANGED <<failed, completed>>
           ELSE \/ Ok("ddisc_nbd", {"chroot_exit"})
                \/ /\ unbound # Binds
                   /\ Fail(build_image_except(<<"ChrootBaseError", "CalledProcessError">>),
                           "chroot_exit")
    /\ UNCHANGED <<elsewhere, run, arch, base_image, pending, mounted, attached, files, attempts,
                   checksumCalls, cleanupHist>>

(***************************************************************************)
(* _compress_image under retry(tries=5)                                    *)
(***************************************************************************)
_compress_image ==
    /\ pc = "compress"
    /\ started' = started \cup {"compress"}
    /\ \E o \in Outcomes :
        IF o = "ok"
        THEN Ok("done", {"compress"}) /\ compressed' = TRUE /\ Returned("compress")
        ELSE /\ RetryOrFail("compress", COMPRESS_TRIES,
                            <<"ImageCompressError", Cause(o)>>, "compress")
             /\ UNCHANGED compressed
    /\ UNCHANGED <<elsewhere, run, arch, base_image, pending, host, fileDigest, shasums, resized,
                   partResized, yqInstalled, resolvReplaced, checksumCalls,
                   cleanupHist, unbindAttempted>>

(***************************************************************************)
(* The next invocation of build_image on the same host                     *)
(***************************************************************************)
NextRun ==
    /\ pc \in {"done", "raised"}
    /\ run < MaxRuns
    /\ run' = run + 1
    /\ pc' = "umount_dev"
    /\ arch' \in Archs
    /\ base_image' \in Bases
    /\ raised' = <<>>
    /\ pending' = <<>>
    /\ shasums' = NoShasums
    /\ resized' = FALSE
    /\ partResized' = FALSE
    /\ yqInstalled' = FALSE
    /\ resolvReplaced' = FALSE
    /\ compressed' = FALSE
    /\ started' = {}
    /\ completed' = {}
    /\ failed' = "none"
    /\ attempts' = [op \in RetryOps |-> 0]
    /\ checksumCalls' = 0
    /\ cleanupIssued' = 0
    /\ cleanupFaithful' = TRUE
    /\ cleanupAllNonzero' = TRUE
    /\ hostCleanAtStart' = Clean
    /\ prevCleanupQuiet' = (/\ hostCleanAtStart /\ cleanupAllNonzero
                            /\ cleanupIssued = 8 /\ "attach" \notin started)
    /\ unbindAttempted' = {}
    /\ fileDigest' = "none"
    /\ UNCHANGED <<host, elsewhere>>

build_image ==
    \/ UmountDev \/ UmountProc \/ UmountSys \/ UmountMountDir \/ UmountNbd \/ UmountNbdP1
    \/ CleanupDisconnectNbd \/ CleanupDisconnectNbdP1
    \/ GetArch \/ _download_base_image \/ _fetch_shasums \/ LookupShasum \/ ValidateChecksum
    \/ _resize_image \/ ConnectNbd \/ _mount_network_block_device_partition
    \/ Growpart \/ Resize2fs \/ _install_yq \/ _replace_mounted_resolv_conf
    \/ ChrootEnter \/ AptUpdate \/ AptInstall \/ _disable_unattended_upgrades
    \/ _configure_system_users \/ _configure_usr_local_bin \/ _install_yarn \/ ChrootExit
    \/ DetachNbd \/ DetachNbdP1 \/ _compress_image

Next == build_image \/ NextRun

Spec == Init /\ [][Next]_vars

(***************************************************************************)
(* initialize, then build_image: the init and run commands of the CLI     *)
(***************************************************************************)
\* one subprocess.check_output of _install_dependencies: only
\* CalledProcessError is caught and converted
InstallDependency(here, next) ==
    /\ pc = here
    /\ started' = started \cup {"dependencies"}
    /\ \E o \in Outcomes :
        CASE o = "ok"      -> Ok(next, IF next = "modprobe" THEN {"dependencies"} ELSE {})
          [] o = "nonzero" -> Fail(<<"DependencyInstallError", "CalledProcessError">>,
                                   "dependencies")
          [] o = "timeout" -> Fail(<<"TimeoutExpired">>, "dependencies")
    /\ UNCHANGED <<elsewhere, run, arch, base_image, pending, host, files, attempts, checksumCalls,
                   cleanupHist, unbindAttempted>>

AptGetUpdate  == InstallDependency("init_apt_update", "init_apt_install")
AptGetInstall == InstallDependency("init_apt_install", "init_snap_go")
SnapInstallGo == InstallDependency("init_snap_go", "modprobe")

\* subprocess.check_output(["/usr/sbin/modprobe", "nbd"], timeout=10): only
\* CalledProcessError is caught and converted; then initialize returns and the
\* run command calls build_image
_enable_network_block_device ==
    /\ pc = "modprobe"
    /\ started' = started \cup {"nbd_module"}
    /\ \E o \in Outcomes :
        CASE o = "ok"      -> Ok("umount_dev", {"nbd_module"})
          [] o = "nonzero" -> Fail(<<"NetworkBlockDeviceError", "CalledProcessError">>,
                                   "nbd_module")
          [] o = "timeout" -> Fail(<<"TimeoutExpired">>, "nbd_module")
    /\ UNCHANGED <<elsewhere, run, arch, base_image, pending, host, files, attempts, checksumCalls,
                   cleanupHist, unbindAttempted>>

initialize ==
    \/ AptGetUpdate \/ AptGetInstall \/ SnapInstallGo
    \/ _enable_network_block_device

InitCli ==
    /\ pc = "init_apt_update"
    /\ Fresh
    /\ Alone

NextCli == initialize \/ Next

SpecCli == InitCli /\ [][NextCli]_vars

(***************************************************************************)
(* Two build_image invocations on one host.  Both work on /dev/nbd0 and    *)
(* /mnt/ubuntu-image.  The first is followed through all of build_image    *)
(* (pc); the second (pcB) through its start-of-run cleanup, which is where *)
(* it touches what the first one holds.                                    *)
(***************************************************************************)
\* what a command of the second invocation leaves alone: everything of the first
\* invocation but the shared device and mounts, and the cloud
firstOnly == <<ctl, chrooted, files, hist, cloud, checks, clirun, uploadB, ext>>

\* one umount of the second invocation's _unmount_build_path
OtherUmountRun(here, next, exists, free, o) ==
    /\ pcB = here
    /\ o \in Possible(exists /\ free)
    /\ pcB' = IF o = "timeout" THEN "raised" ELSE next
    /\ UNCHANGED <<firstOnly, attached>>

OtherUmountBind(here, next, b) ==
    \E o \in Outcomes :
        /\ OtherUmountRun(here, next, b \in binds, TRUE, o)
        /\ binds' = IF o = "ok" THEN binds \ {b} ELSE binds
        /\ UNCHANGED mounted

\* the mount directory is busy while a bind is mounted below it or a process
\* has it as its root
OtherUmountMounted(here, next) ==
    \E o \in Outcomes :
        /\ OtherUmountRun(here, next, mounted, binds = {} /\ ~chrooted, o)
        /\ mounted' = IF o = "ok" THEN FALSE ELSE mounted
        /\ UNCHANGED binds

OtherUmountNbd ==
    \E o \in Outcomes :
        /\ OtherUmountRun("umount_nbd", "umount_nbdp1", FALSE, TRUE, o)
        /\ UNCHANGED <<binds, mounted>>

\* as OtherDisconnect, but the disconnect waits while another invocation is
\* inside build_image
OtherDisconnect_locked(here, next) ==
    /\ pcB = here
    /\ pc \in {"done", "raised"}
    /\ \E o \in Outcomes :
        /\ attached' = IF o = "ok" THEN FALSE ELSE attached
        /\ pcB' = IF o = "timeout" THEN "raised" ELSE next
    /\ UNCHANGED <<firstOnly, binds, mounted>>

\* one qemu-nbd --disconnect of the second invocation, check=False
OtherDisconnect(here, next) ==
    /\ pcB = here
    /\ \E o \in Outcomes :
        /\ attached' = IF o = "ok" THEN FALSE ELSE attached
        /\ pcB' = IF o = "timeout" THEN "raised" ELSE next
    /\ UNCHANGED <<firstOnly, binds, mounted>>

OtherCleanup ==
    \/ OtherUmountBind("umount_dev", "umount_proc", "dev")
    \/ OtherUmountBind("umount_proc", "umount_sys", "proc")
    \/ OtherUmountBind("umount_sys", "umount_mountdir", "sys")
    \/ OtherUmountMounted("umount_mountdir", "umount_nbd")
    \/ OtherUmountNbd
    \/ OtherUmountMounted("umount_nbdp1", "cdisc_nbd")
    \/ OtherDisconnect("cdisc_nbd", "cdisc_nbdp1")
    \/ OtherDisconnect("cdisc_nbdp1", "get_arch")

\* both invocations are started on a host with nothing attached or mounted
InitConcurrent ==
    /\ pc = "umount_dev"
    /\ Fresh
    /\ Clean
    /\ pcB = "umount_dev"
    /\ NoCloud
    /\ NoManifest
    /\ NoFile
    /\ NoCliRun
    /\ NoUploadB
    /\ NoExt

NextConcurrent == build_image \/ OtherCleanup

SpecConcurrent == InitConcurrent /\ [][NextConcurrent]_vars

(***************************************************************************)
(* store.py: upload_image, _prune_old_images, get_latest_build_id, called  *)
(* against the images of one name in the cloud.                            *)
(***************************************************************************)
ImageId(n) == "image-" \o ToString(n)

\* the images found in the cloud before the first call: ids and creation
\* times are distinct, and the order of the ids says nothing about the times
InitialImages ==
    {r \in SUBSET [id : {ImageId(n) : n \in 1..MaxImages}, created_at : 1..MaxImages] :
        \A x, y \in r : x # y => (x.id # y.id /\ x.created_at # y.created_at)}

\* as Now, but the cloud's clock stands before every image it holds
Now_early ==
    IF registry = {} THEN 1
    ELSE (CHOOSE t \in {x.created_at : x \in registry} :
             \A x \in registry : t <= x.created_at) - 1

\* creation time of an image made now: later than every image in the cloud
Now == 1 + Cardinality(UNION {1..x.created_at : x \in registry})

\* the number in the id of an image
ImageNumber(x) == CHOOSE n \in 1..(MaxImages + MaxUploads + 1) : ImageId(n) = x.id

\* the images of reg listed by id, upwards or downwards
ListedById(reg, upwards) ==
    [i \in 1..Cardinality(reg) |->
        CHOOSE x \in reg :
            Cardinality({y \in reg : IF upwards THEN ImageNumber(y) < ImageNumber(x)
                                                ELSE ImageNumber(y) > ImageNumber(x)}) = i - 1]

\* connection.search_images(image_name): the images of the name as a list, in
\* an order that is the cloud's choice and has nothing to do with created_at:
\* the initial images carry every assignment of creation times to ids
search_images(reg) == {ListedById(reg, upwards) : upwards \in BOOLEAN}

\* place of found[j] in sorted(found, key=created_at, reverse=True): after the
\* images created later, and after the equal ones that come before it in found
\* (the sort is stable)
SortedPlace(found, j) ==
    1 + Cardinality({m \in 1..Len(found) :
                        \/ found[m].created_at > found[j].created_at
                        \/ (found[m].created_at = found[j].created_at /\ m < j)})

\* as _get_sorted_images_by_created_at, but without reverse=True
_get_sorted_images_by_created_at_oldestFirst(found) ==
    [i \in 1..Len(found) |->
        found[CHOOSE j \in 1..Len(found) : SortedPlace(found, j) = Len(found) + 1 - i]]

\* sorted(images, key=lambda image: image.created_at, reverse=True)
_get_sorted_images_by_created_at(found) ==
    [i \in 1..Len(found) |-> found[CHOOSE j \in 1..Len(found) : SortedPlace(found, j) = i]]

\* as Slice, but one image more than num_revisions is kept
Slice_oneMore(images, n) == SubSeq(images, n + 2, Len(images))

\* images[n:], a negative n counting from the end of the list
Slice(images, n) ==
    LET start == IF n >= 0 THEN n
                 ELSE IF Len(images) + n > 0 THEN Len(images) + n ELSE 0
    IN  SubSeq(images, start + 1, Len(images))

buildOnly == <<ctl, host, files, hist, pcB, checks, clirun, uploadB, ext>>

\* upload_image(..., keep_revisions) is called
upload_image ==
    /\ spc = "idle"
    /\ uploads < MaxUploads
    /\ uploads' = uploads + 1
    /\ num_revisions' \in 0..MaxKeep
    /\ spc' = "create"
    /\ lastCall' = "upload"
    /\ image' = "none"
    /\ result' = "none"
    /\ latest' = "unknown"
    /\ sraised' = <<>>
    /\ snapshot' = <<>>
    /\ deleteAttempted' = {}
    /\ images_to_prune' = <<>>
    /\ UNCHANGED <<registry, buildOnly>>

\* upload_image returns image.id
ReturnImageId ==
    /\ spc' = "idle"
    /\ result' = image
    /\ UNCHANGED sraised

\* an error leaves upload_image: its except clause converts an
\* OpenStackCloudException and nothing else
upload_image_except(chain) ==
    /\ spc' = "idle"
    /\ sraised' = IF Head(chain) = "OpenStackCloudException"
                  THEN <<"UploadImageError">> \o chain
                  ELSE chain
    /\ UNCHANGED result

\* connection.create_image(..., allow_duplicates=True, wait=True)
create_image ==
    /\ spc = "create"
    /\ \/ /\ image' = ImageId(MaxImages + uploads)
          /\ registry' = registry \cup {[id |-> image', created_at |-> Now]}
          /\ spc' = "search"
          /\ UNCHANGED <<sraised, result>>
       \/ /\ upload_image_except(<<"OpenStackCloudException">>)
          /\ UNCHANGED <<image, registry>>
    /\ UNCHANGED <<num_revisions, images_to_prune, lastCall, latest, snapshot,
                   deleteAttempted, uploads, buildOnly>>

\* _prune_old_images up to its for loop: search and sort, return when there
\* are no images, slice
_prune_old_images ==
    /\ spc = "search"
    /\ \/ \E found \in search_images(registry) :
            LET images == _get_sorted_images_by_created_at(found)
            IN  /\ snapshot' = images
                /\ images_to_prune' = IF images = <<>> THEN <<>>
                                      ELSE Slice(images, num_revisions)
                /\ IF images_to_prune' = <<>>
                   THEN ReturnImageId
                   ELSE spc' = "delete" /\ UNCHANGED <<sraised, result>>
       \/ /\ upload_image_except(<<"OpenstackError", "OpenStackCloudException">>)
          /\ UNCHANGED <<snapshot, images_to_prune>>
    /\ UNCHANGED <<registry, num_revisions, image, lastCall, latest, deleteAttempted,
                   uploads, buildOnly>>

\* one round of the for loop: connection.delete_image(image.id, wait=True)
\* returns True, returns False or raises OpenStackCloudException
DeleteOutcomes == {"true", "false", "raise"}

delete_image_with(o) ==
    /\ spc = "delete"
    /\ deleteAttempted' = deleteAttempted \cup {Head(images_to_prune).id}
    /\ CASE o = "true" ->
               /\ registry' = registry \ {Head(images_to_prune)}
               /\ images_to_prune' = Tail(images_to_prune)
               /\ IF images_to_prune' = <<>>
                  THEN ReturnImageId
                  ELSE UNCHANGED <<spc, sraised, result>>
          [] o = "false" ->
               /\ upload_image_except(<<"OpenstackError">>)
               /\ UNCHANGED <<registry, images_to_prune>>
          [] o = "raise" ->
               /\ upload_image_except(<<"OpenstackError", "OpenStackCloudException">>)
               /\ UNCHANGED <<registry, images_to_prune>>
    /\ UNCHANGED <<num_revisions, image, lastCall, latest, snapshot, uploads, buildOnly>>

delete_image == \E o \in DeleteOutcomes : delete_image_with(o)

\* get_latest_build_id: "" when there is no image, else images[0].id
get_latest_build_id ==
    /\ spc = "idle"
    /\ lastCall' = "latest"
    /\ \/ \E found \in search_images(registry) :
            LET images == _get_sorted_images_by_created_at(found)
            IN  /\ latest' = IF images = <<>> THEN "" ELSE images[1].id
                /\ sraised' = <<>>
       \/ /\ sraised' = <<"OpenstackError", "OpenStackCloudException">>
          /\ latest' = "unknown"
    /\ UNCHANGED <<registry, spc, num_revisions, image, images_to_prune, result, snapshot,
                   deleteAttempted, uploads, buildOnly>>

\* the store functions run in a process in which no build_image is running
InitStore ==
    /\ pc = "none"
    /\ Fresh
    /\ Clean
    /\ arch = "x64"
    /\ base_image = "jammy"
    /\ pcB = "absent"
    /\ registry \in InitialImages
    /\ spc = "idle"
    /\ num_revisions = 0
    /\ image = "none"
    /\ images_to_prune = <<>>
    /\ lastCall = "none"
    /\ result = "none"
    /\ latest = "unknown"
    /\ sraised = <<>>
    /\ snapshot = <<>>
    /\ deleteAttempted = {}
    /\ uploads = 0
    /\ NoManifest
    /\ NoFile
    /\ NoCliRun
    /\ NoUploadB
    /\ NoExt

NextStore ==
    \/ upload_image \/ create_image \/ _prune_old_images \/ delete_image
    \/ get_latest_build_id

SpecStore == InitStore /\ [][NextStore]_vars

(***************************************************************************)
(* openstack_manager.py: OpenstackManager.upload_image (which prunes       *)
(* before it creates), _prune_old_images, get_latest_image_id, against the *)
(* same images.  upload.py holds the same class.                           *)
(***************************************************************************)
\* sorted(images, key=lambda image: image.created_at, reverse=True)
_get_images_by_latest(found) ==
    [i \in 1..Len(found) |-> found[CHOOSE j \in 1..Len(found) : SortedPlace(found, j) = i]]

\* OpenstackManager.upload_image(config) is called
OpenstackManager_upload_image ==
    /\ spc = "idle"
    /\ uploads < MaxUploads
    /\ uploads' = uploads + 1
    /\ num_revisions' \in 0..MaxKeep
    /\ spc' = "m_search"
    /\ lastCall' = "m_upload"
    /\ image' = "none"
    /\ result' = "none"
    /\ latest' = "unknown"
    /\ sraised' = <<>>
    /\ snapshot' = <<>>
    /\ deleteAttempted' = {}
    /\ images_to_prune' = <<>>
    /\ UNCHANGED <<registry, buildOnly>>

\* _prune_old_images(num_revisions=config.num_revisions - 1) up to its for
\* loop.  A failed search raises OpenstackConnectionError, which the except
\* clause of upload_image (OpenStackCloudException only) lets through.
OpenstackManager_prune_old_images ==
    /\ spc = "m_search"
    /\ \/ \E found \in search_images(registry) :
            LET images == _get_images_by_latest(found)
            IN  /\ snapshot' = images
                /\ images_to_prune' = Slice(images, num_revisions - 1)
                /\ spc' = IF images_to_prune' = <<>> THEN "m_create" ELSE "m_delete"
                /\ UNCHANGED sraised
       \/ /\ spc' = "idle"
          /\ sraised' = <<"OpenstackConnectionError", "OpenStackCloudException">>
          /\ UNCHANGED <<snapshot, images_to_prune>>
    /\ UNCHANGED <<registry, num_revisions, image, lastCall, result, latest,
                   deleteAttempted, uploads, buildOnly>>

\* as OpenstackManager_delete_image, but a delete that raises ends the call
OpenstackManager_delete_image_raising ==
    /\ spc = "m_delete"
    /\ deleteAttempted' = deleteAttempted \cup {Head(images_to_prune).id}
    /\ \E o \in DeleteOutcomes :
        IF o = "raise"
        THEN /\ spc' = "idle"
             /\ sraised' = <<"UploadImageError", "OpenStackCloudException">>
             /\ UNCHANGED <<registry, images_to_prune>>
        ELSE /\ registry' = IF o = "true" THEN registry \ {Head(images_to_prune)}
                                          ELSE registry
             /\ images_to_prune' = Tail(images_to_prune)
             /\ spc' = IF images_to_prune' = <<>> THEN "m_create" ELSE "m_delete"
             /\ UNCHANGED sraised
    /\ UNCHANGED <<num_revisions, image, lastCall, result, latest, snapshot, uploads,
                   buildOnly>>

\* one round of the for loop: a delete that returns False or raises is logged
OpenstackManager_delete_image ==
    /\ spc = "m_delete"
    /\ deleteAttempted' = deleteAttempted \cup {Head(images_to_prune).id}
    /\ \E o \in DeleteOutcomes :
        registry' = IF o = "true" THEN registry \ {Head(images_to_prune)} ELSE registry
    /\ images_to_prune' = Tail(images_to_prune)
    /\ spc' = IF images_to_prune' = <<>> THEN "m_create" ELSE "m_delete"
    /\ UNCHANGED <<num_revisions, image, lastCall, result, latest, sraised, snapshot,
                   uploads, buildOnly>>

\* self.conn.create_image(..., allow_duplicates=True, wait=True); return image.id
OpenstackManager_create_image ==
    /\ spc = "m_create"
    /\ spc' = "idle"
    /\ \/ /\ image' = ImageId(MaxImages + uploads)
          /\ registry' = registry \cup {[id |-> image', created_at |-> Now]}
          /\ result' = image'
          /\ UNCHANGED sraised
       \/ /\ sraised' = <<"UploadImageError", "OpenStackCloudException">>
          /\ UNCHANGED <<image, registry, result>>
    /\ UNCHANGED <<num_revisions, images_to_prune, lastCall, latest, snapshot,
                   deleteAttempted, uploads, buildOnly>>

\* get_latest_image_id: None when there is no image, else images[0].id
get_latest_image_id ==
    /\ spc = "idle"
    /\ lastCall' = "m_latest"
    /\ \/ \E found \in search_images(registry) :
            LET images == _get_images_by_latest(found)
            IN  /\ latest' = IF images = <<>> THEN "None" ELSE images[1].id
                /\ sraised' = <<>>
       \/ /\ sraised' = <<"GetImageError", "OpenstackConnectionError",
                           "OpenStackCloudException">>
          /\ latest' = "unknown"
    /\ UNCHANGED <<registry, spc, num_revisions, image, images_to_prune, result, snapshot,
                   deleteAttempted, uploads, buildOnly>>

NextManager ==
    \/ OpenstackManager_upload_image \/ OpenstackManager_prune_old_images
    \/ OpenstackManager_delete_image \/ OpenstackManager_create_image
    \/ get_latest_image_id

\* calls of the methods of OpenstackManager and of store.get_latest_build_id,
\* one after another
NextCloud == NextManager \/ get_latest_build_id

\* the images of the name are what earlier uploads have left; one more
\* upload_image call is followed
InitCloud ==
    /\ pc = "none"
    /\ Fresh
    /\ Clean
    /\ arch = "x64"
    /\ base_image = "jammy"
    /\ pcB = "absent"
    /\ registry \in InitialImages
    /\ spc = "idle"
    /\ num_revisions = 0
    /\ image = "none"
    /\ images_to_prune = <<>>
    /\ lastCall = "none"
    /\ result = "none"
    /\ latest = "unknown"
    /\ sraised = <<>>
    /\ snapshot = <<>>
    /\ deleteAttempted = {}
    /\ uploads = MaxUploads - 1
    /\ NoManifest
    /\ NoFile
    /\ NoCliRun
    /\ NoUploadB
    /\ NoExt

SpecCloud == InitCloud /\ [][NextCloud]_vars

(***************************************************************************)
(* builder.py: the SHA256SUMS file as _fetch_shasums parses it, and the    *)
(* lookup of _download_and_validate_image.  Text is a sequence of          *)
(* characters.                                                             *)
(***************************************************************************)
MaxLines == 2       \* lines of the SHA256SUMS file

Whitespace == {" ", "\n"}
HexDigests == {<<"a", "1">>, <<"b">>}
ImageFiles == {<<"j">>, <<"n">>, <<"f">>, <<"j", "n">>}

\* a line <SHA256SUM> *<filename>
ShasumLine(digest, filename) == digest \o <<" ", "*">> \o filename

\* the SHA256SUMS file that sha256sum writes for the given files
RECURSIVE ShasumFile(_)
ShasumFile(lines) ==
    IF lines = <<>> THEN <<>>
    ELSE ShasumLine(Head(lines)[1], Head(lines)[2]) \o <<"\n">> \o ShasumFile(Tail(lines))

\* the files a SHA256SUMS file can list: every file once
Listings ==
    {lines \in UNION {[1..n -> HexDigests \X ImageFiles] : n \in 0..MaxLines} :
        \A i, j \in 1..Len(lines) : i # j => lines[i][2] # lines[j][2]}

RECURSIVE lstrip(_, _)
lstrip(s, chars) ==
    IF s # <<>> /\ Head(s) \in chars THEN lstrip(Tail(s), chars) ELSE s

RECURSIVE rstrip(_, _)
rstrip(s, chars) ==
    IF s # <<>> /\ s[Len(s)] \in chars THEN rstrip(SubSeq(s, 1, Len(s) - 1), chars) ELSE s

\* str.strip(chars)
strip(s, chars) == rstrip(lstrip(s, chars), chars)

\* the pieces of s between the characters of seps; cur is the piece being read
RECURSIVE SplitAt(_, _, _)
SplitAt(s, seps, cur) ==
    IF s = <<>> THEN <<cur>>
    ELSE IF Head(s) \in seps THEN <<cur>> \o SplitAt(Tail(s), seps, <<>>)
    ELSE SplitAt(Tail(s), seps, Append(cur, Head(s)))

\* str.splitlines(): no empty last line
splitlines(s) ==
    LET pieces == SplitAt(s, {"\n"}, <<>>)
    IN  IF pieces[Len(pieces)] = <<>> THEN SubSeq(pieces, 1, Len(pieces) - 1) ELSE pieces

\* str.split(): the words between runs of whitespace
split(s) == SelectSeq(SplitAt(s, Whitespace, <<>>), LAMBDA piece : piece # <<>>)

\* as EntryName, but the word is taken as it stands
EntryName_unstripped(word) == word

\* sha256_and_file[1].strip("*")
EntryName(word) == strip(word, {"*"})

\* the dictionary comprehension: a later line replaces the entry of an earlier
\* one of the same name; a line without words is left out
RECURSIVE DictOfLines(_, _)
DictOfLines(lines, d) ==
    IF lines = <<>> THEN d
    ELSE LET sha256_and_file == split(Head(lines))
             name == EntryName(sha256_and_file[2])
         IN  IF sha256_and_file = <<>> THEN DictOfLines(Tail(lines), d)
             ELSE DictOfLines(Tail(lines),
                              [f \in DOMAIN d \cup {name} |->
                                  IF f = name THEN sha256_and_file[1] ELSE d[f]])

imagefile_to_shasum(contents) ==
    DictOfLines(splitlines(strip(contents, Whitespace)), NoShasums)

\* _fetch_shasums has received the response and returns the dictionary
ParseShasums ==
    /\ mpc = "fetched"
    /\ manifest' = imagefile_to_shasum(shasum_contents)
    /\ mpc' = "lookup"
    /\ UNCHANGED <<shasum_contents, lookup_name, expected, lookup_error,
                   content, expected_digest, vpc, offset, sha256, valid,
                   ctl, host, files, hist, pcB, cloud, clirun, uploadB, ext>>

\* if image_path_str not in shasums: raise BaseImageDownloadError(...)
CheckManifestEntry ==
    /\ mpc = "lookup"
    /\ IF lookup_name \in DOMAIN manifest
       THEN /\ expected' = manifest[lookup_name]
            /\ mpc' = "found"
            /\ UNCHANGED lookup_error
       ELSE /\ lookup_error' = "Corresponding checksum not found."
            /\ mpc' = "raised"
            /\ UNCHANGED expected
    /\ UNCHANGED <<shasum_contents, lookup_name, manifest,
                   content, expected_digest, vpc, offset, sha256, valid,
                   ctl, host, files, hist, pcB, cloud, clirun, uploadB, ext>>

\* no build, no store call
Elsewhere ==
    /\ pc = "none"
    /\ Fresh
    /\ Clean
    /\ arch = "x64"
    /\ base_image = "jammy"
    /\ pcB = "absent"
    /\ NoCloud
    /\ NoCliRun
    /\ NoUploadB
    /\ NoExt

InitShasums ==
    /\ Elsewhere
    /\ NoFile
    /\ \E lines \in Listings : shasum_contents = ShasumFile(lines)
    /\ lookup_name \in ImageFiles
    /\ mpc = "fetched"
    /\ manifest = NoShasums
    /\ expected = <<>>
    /\ lookup_error = ""

NextShasums == ParseShasums \/ CheckManifestEntry

SpecShasums == InitShasums /\ [][NextShasums]_vars

(***************************************************************************)
(* builder.py: _validate_checksum reads the file in pieces of              *)
(* CHECKSUM_BUF_SIZE bytes and feeds each to the hash object.  The hash    *)
(* is modelled without collisions: the state is a number that determines   *)
(* the bytes absorbed, the digest is that number written in hexadecimal.   *)
(***************************************************************************)
MaxBytes == 4               \* size of the file
CHECKSUM_BUF_SIZE == 2      \* scaled down from 65536

Bytes == {0, 1}
Contents == UNION {[1..n -> Bytes] : n \in 0..MaxBytes}

\* as update, but the hash object forgets what it absorbed before
RECURSIVE update_forgetting(_, _)
update_forgetting(h, data) ==
    IF data = <<>> THEN 0
    ELSE IF Len(data) = 1 THEN Head(data) + 1
    ELSE update_forgetting(h, SubSeq(data, 1, Len(data) - 1)) * 3 + data[Len(data)] + 1

\* sha256.update(data)
RECURSIVE update(_, _)
update(h, data) ==
    IF data = <<>> THEN h ELSE update(h * 3 + Head(data) + 1, Tail(data))

HexDigit(n) ==
    CASE n = 0 -> "0" [] n = 1 -> "1" [] n = 2 -> "2" [] n = 3 -> "3"
      [] n = 4 -> "4" [] n = 5 -> "5" [] n = 6 -> "6" [] n = 7 -> "7"
      [] n = 8 -> "8" [] n = 9 -> "9" [] n = 10 -> "a" [] n = 11 -> "b"
      [] n = 12 -> "c" [] n = 13 -> "d" [] n = 14 -> "e" [] n = 15 -> "f"

\* sha256.hexdigest()
RECURSIVE hexdigest(_)
hexdigest(h) ==
    IF h < 16 THEN HexDigit(h) ELSE hexdigest(h \div 16) \o HexDigit(h % 16)

\* target_file.read(CHECKSUM_BUF_SIZE) at the given offset
read(file, at) ==
    SubSeq(file, at + 1, IF at + CHECKSUM_BUF_SIZE < Len(file)
                         THEN at + CHECKSUM_BUF_SIZE ELSE Len(file))

\* one round of the while loop
ReadChunk ==
    /\ vpc = "read"
    /\ LET data == read(content, offset)
       IN  IF data = <<>>
           THEN vpc' = "compare" /\ UNCHANGED <<sha256, offset>>
           ELSE /\ sha256' = update(sha256, data)
                /\ offset' = offset + Len(data)
                /\ UNCHANGED vpc
    /\ UNCHANGED <<content, expected_digest, valid,
                   shasum_contents, lookup_name, mpc, manifest, expected, lookup_error,
                   ctl, host, files, hist, pcB, cloud, clirun, uploadB, ext>>

\* return sha256.hexdigest() == expected_checksum
CompareDigest ==
    /\ vpc = "compare"
    /\ valid' = (hexdigest(sha256) = expected_digest)
    /\ vpc' = "returned"
    /\ UNCHANGED <<content, expected_digest, offset, sha256,
                   shasum_contents, lookup_name, mpc, manifest, expected, lookup_error,
                   ctl, host, files, hist, pcB, cloud, clirun, uploadB, ext>>

\* the checksums a caller can pass: the digest of any file, and other text
ExpectedChecksums == {hexdigest(update(0, c)) : c \in Contents} \cup {"", "test"}

InitChecksum ==
    /\ Elsewhere
    /\ NoManifest
    /\ content \in Contents
    /\ expected_digest \in ExpectedChecksums
    /\ vpc = "read"
    /\ offset = 0
    /\ sha256 = 0
    /\ valid = FALSE

NextChecksum == ReadChunk \/ CompareDigest

SpecChecksum == InitChecksum /\ [][NextChecksum]_vars

(***************************************************************************)
(* cli.py: the run action.  builder.run is build_image of builder.py; the  *)
(* upload is upload_image of store.py.  The external builder is one step   *)
(* that returns the id of its snapshot or raises.                          *)
(***************************************************************************)
\* what the steps of cli.run themselves leave alone
runOnly == <<run, base_image, raised, pending, host, files, hist, pcB, checks, uploadB, ext,
             registry, num_revisions, image, images_to_prune, lastCall, result, latest,
             sraised, snapshot, deleteAttempted, uploads>>

\* arch = get_supported_arch(); base = BaseImage.from_str(base_image); the branch
cli_run ==
    /\ rpc = "start"
    /\ IF arch = "other"
       THEN /\ rpc' = "raised"
            /\ rraised' = <<"UnsupportedArchitectureError">>
            /\ UNCHANGED pc
       ELSE /\ rpc' = IF experimental_external THEN "external" ELSE "build"
            /\ pc' = IF experimental_external THEN pc ELSE "umount_dev"
            /\ UNCHANGED rraised
    /\ UNCHANGED <<arch, spc, callback_script, experimental_external, image_id, callbacks,
                   runOnly>>

\* as builder_run_returns, but the callback is made before the upload
builder_run_returns_callbackFirst ==
    /\ rpc = "build"
    /\ pc \in {"done", "raised"}
    /\ IF pc = "done"
       THEN /\ rpc' = "upload"
            /\ spc' = "idle"
            /\ callbacks' = IF callback_script
                             THEN Append(callbacks, <<"callback_script", image_id>>)
                             ELSE callbacks
            /\ UNCHANGED rraised
       ELSE /\ rpc' = "raised"
            /\ rraised' = raised
            /\ UNCHANGED <<spc, callbacks>>
    /\ UNCHANGED <<pc, arch, callback_script, experimental_external, image_id, runOnly>>

\* builder.run has returned, store.upload_image is called next; or it has
\* raised, and so does cli.run
builder_run_returns ==
    /\ rpc = "build"
    /\ pc \in {"done", "raised"}
    /\ IF pc = "done"
       THEN /\ rpc' = "upload"
            /\ spc' = "idle"
            /\ UNCHANGED rraised
       ELSE /\ rpc' = "raised"
            /\ rraised' = raised
            /\ UNCHANGED spc
    /\ UNCHANGED <<pc, arch, callback_script, experimental_external, image_id, callbacks,
                   runOnly>>

\* image_id = store.upload_image(...), or its error leaves cli.run
upload_image_returns ==
    /\ rpc = "upload"
    /\ spc = "idle"
    /\ lastCall = "upload"
    /\ spc' = "absent"
    /\ IF sraised = <<>>
       THEN /\ image_id' = result
            /\ rpc' = "callback"
            /\ UNCHANGED rraised
       ELSE /\ rpc' = "raised"
            /\ rraised' = sraised
            /\ UNCHANGED image_id
    /\ UNCHANGED <<pc, arch, callback_script, experimental_external, callbacks, runOnly>>

\* image_id = openstack_builder.run(...)
openstack_builder_run ==
    /\ rpc = "external"
    /\ \/ /\ image_id' = "snapshot"
          /\ rpc' = "callback"
          /\ UNCHANGED rraised
       \/ /\ rpc' = "raised"
          /\ rraised' \in {<<"UploadImageError", "OpenStackCloudException">>,
                            <<"OpenStackCloudException">>}
          /\ UNCHANGED image_id
    /\ UNCHANGED <<pc, arch, spc, callback_script, experimental_external, callbacks, runOnly>>

\* if callback_script: subprocess.check_call([str(callback_script), image_id])
check_call ==
    /\ rpc = "callback"
    /\ IF callback_script
       THEN /\ callbacks' = Append(callbacks, <<"callback_script", image_id>>)
            /\ \/ rpc' = "done" /\ UNCHANGED rraised
               \/ rpc' = "raised" /\ rraised' = <<"CalledProcessError">>
       ELSE /\ rpc' = "done"
            /\ UNCHANGED <<callbacks, rraised>>
    /\ UNCHANGED <<pc, arch, spc, callback_script, experimental_external, image_id, runOnly>>

InitCliRun ==
    /\ pc = "none"
    /\ Fresh
    /\ Clean
    /\ pcB = "absent"
    /\ NoManifest
    /\ NoFile
    /\ registry = {}
    /\ spc = "absent"
    /\ num_revisions = 0
    /\ image = "none"
    /\ images_to_prune = <<>>
    /\ lastCall = "none"
    /\ result = "none"
    /\ latest = "unknown"
    /\ sraised = <<>>
    /\ snapshot = <<>>
    /\ deleteAttempted = {}
    /\ uploads = 0
    /\ rpc = "start"
    /\ callback_script \in BOOLEAN
    /\ experimental_external \in BOOLEAN
    /\ image_id = "none"
    /\ callbacks = <<>>
    /\ rraised = <<>>
    /\ NoUploadB
    /\ NoExt

NextCliRun ==
    \/ cli_run \/ build_image \/ builder_run_returns
    \/ upload_image \/ create_image \/ _prune_old_images \/ delete_image
    \/ upload_image_returns \/ openstack_builder_run \/ check_call

SpecCliRun == InitCliRun /\ [][NextCliRun]_vars

(***************************************************************************)
(* Two store.upload_image calls for one image name with the same           *)
(* keep_revisions, made by two processes.  The cloud deletes an image that *)
(* exists and answers False for one that is gone.  The first call is       *)
(* followed by spc, the second by spcB.                                    *)
(***************************************************************************)
\* what a step of the second call leaves alone
firstCall == <<ctl, host, files, hist, pcB, checks, clirun, ext, spc, num_revisions, image,
               images_to_prune, lastCall, result, latest, sraised, snapshot,
               deleteAttempted, uploads>>

\* connection.delete_image(image.id, wait=True) of this cloud
Deleted(target, reg) == IF target \in reg THEN "true" ELSE "false"

\* one round of the for loop of the first call
delete_image_here == delete_image_with(Deleted(Head(images_to_prune), registry))

\* the second process calls upload_image with the keep_revisions of the first
OtherUploadImage ==
    /\ spcB = "waiting"
    /\ lastCall = "upload"
    /\ spcB' = "create"
    /\ UNCHANGED <<registry, imageB, pruneB, resultB, sraisedB, snapshotB, deleteAttemptedB,
                   firstCall>>

\* connection.create_image(..., allow_duplicates=True, wait=True)
OtherCreateImage ==
    /\ spcB = "create"
    /\ \/ /\ imageB' = ImageId(MaxImages + MaxUploads + 1)
          /\ registry' = registry \cup {[id |-> imageB', created_at |-> Now]}
          /\ spcB' = "search"
          /\ UNCHANGED sraisedB
       \/ /\ spcB' = "done"
          /\ sraisedB' = <<"UploadImageError", "OpenStackCloudException">>
          /\ UNCHANGED <<imageB, registry>>
    /\ UNCHANGED <<pruneB, resultB, snapshotB, deleteAttemptedB, firstCall>>

\* _prune_old_images up to its for loop
OtherPruneOldImages ==
    /\ spcB = "search"
    /\ \/ \E found \in search_images(registry) :
            LET images == _get_sorted_images_by_created_at(found)
            IN  /\ snapshotB' = images
                /\ pruneB' = IF images = <<>> THEN <<>> ELSE Slice(images, num_revisions)
                /\ IF pruneB' = <<>>
                   THEN spcB' = "done" /\ resultB' = imageB
                   ELSE spcB' = "delete" /\ UNCHANGED resultB
                /\ UNCHANGED sraisedB
       \/ /\ spcB' = "done"
          /\ sraisedB' = <<"OpenstackError", "OpenStackCloudException">>
          /\ UNCHANGED <<snapshotB, pruneB, resultB>>
    /\ UNCHANGED <<registry, imageB, deleteAttemptedB, firstCall>>

\* one round of the for loop of the second call
OtherDeleteImage ==
    /\ spcB = "delete"
    /\ deleteAttemptedB' = deleteAttemptedB \cup {Head(pruneB).id}
    /\ IF Deleted(Head(pruneB), registry) = "true"
       THEN /\ registry' = registry \ {Head(pruneB)}
            /\ pruneB' = Tail(pruneB)
            /\ IF pruneB' = <<>>
               THEN spcB' = "done" /\ resultB' = imageB
               ELSE UNCHANGED <<spcB, resultB>>
            /\ UNCHANGED sraisedB
       ELSE /\ spcB' = "done"
            /\ sraisedB' = <<"OpenstackError">>
            /\ UNCHANGED <<registry, pruneB, resultB>>
    /\ UNCHANGED <<imageB, snapshotB, firstCall>>

OtherUpload ==
    OtherUploadImage \/ OtherCreateImage \/ OtherPruneOldImages \/ OtherDeleteImage

InitTwoUploads ==
    /\ pc = "none"
    /\ Fresh
    /\ Clean
    /\ arch = "x64"
    /\ base_image = "jammy"
    /\ pcB = "absent"
    /\ NoManifest
    /\ NoFile
    /\ NoCliRun
    /\ registry \in InitialImages
    /\ spc = "idle"
    /\ num_revisions = 0
    /\ image = "none"
    /\ images_to_prune = <<>>
    /\ lastCall = "none"
    /\ result = "none"
    /\ latest = "unknown"
    /\ sraised = <<>>
    /\ snapshot = <<>>
    /\ deleteAttempted = {}
    /\ uploads = MaxUploads - 1
    /\ spcB = "waiting"
    /\ imageB = "none"
    /\ pruneB = <<>>
    /\ resultB = "none"
    /\ sraisedB = <<>>
    /\ snapshotB = <<>>
    /\ deleteAttemptedB = {}
    /\ NoExt

NextTwoUploads ==
    \/ upload_image \/ create_image \/ _prune_old_images \/ delete_image_here
    \/ OtherUpload

SpecTwoUploads == InitTwoUploads /\ [][NextTwoUploads]_vars

(***************************************************************************)
(* Vocabulary of the claims                                                *)
(***************************************************************************)
CleanupPcs == {"umount_dev", "umount_proc", "umount_sys", "umount_mountdir",
               "umount_nbd", "umount_nbdp1", "cdisc_nbd", "cdisc_nbdp1"}
CleanupCommands == Cardinality(CleanupPcs)

DownloadLabels == {"arch", "download", "fetch", "manifest_lookup", "checksum"}
InChrootLabels == {"apt_update", "apt_install", "disable_upgrades", "configure_users",
                   "configure_bin", "install_yarn"}
PostAttachLabels == {"mount", "partition_resize", "yq", "resolv", "chroot_enter",
                     "chroot_exit", "detach", "compress"} \cup InChrootLabels
PipelineLabels == DownloadLabels \cup {"image_resize", "attach"} \cup PostAttachLabels

\* position of a step (or of the place of a failure) in the source order of build_image
StepPos(l) ==
    CASE l = "cleanup" -> 0
      [] l \in DownloadLabels \cup {"download_validate", "lookup"} -> 1
      [] l = "image_resize" -> 2
      [] l = "attach" -> 3
      [] l = "mount" -> 4
      [] l = "partition_resize" -> 5
      [] l = "yq" -> 6
      [] l = "resolv" -> 7
      [] l = "chroot_enter" -> 8
      [] l \in InChrootLabels -> 9
      [] l = "chroot_exit" -> 10
      [] l = "detach" -> 11
      [] l = "compress" -> 12

ThisImagePath == image_path_str(base_image, _get_supported_runner_arch(arch))

(***************************************************************************)
(* C1: whatever step of build_image fails, the error that leaves           *)
(* build_image is a BuildImageError whose cause chain holds the step's     *)
(* original error.                                                         *)
(***************************************************************************)
C1_EveryFailureIsBuildImageError ==
    (pc = "raised" /\ failed \in PipelineLabels)
        => (Len(raised) >= 2 /\ Head(raised) = "BuildImageError")

(***************************************************************************)
(* C2: when build_image raises because of a step after the attach, the     *)
(* host is Clean at that moment: nothing bound, nothing mounted, /dev/nbd0 *)
(* detached.                                                               *)
(***************************************************************************)
C2_CleanWhenRaisedAfterAttach ==
    (pc = "raised" /\ failed \in PostAttachLabels) => Clean

(***************************************************************************)
(* C3: in a run without failure the mount directory is unmounted and the   *)
(* device is detached when compression starts and when build_image returns.*)
(***************************************************************************)
C3_SessionDestroyedBeforeCompress ==
    pc \in {"compress", "done"} => (~mounted /\ ~attached)

(***************************************************************************)
(* C4: from every prior host state, when the start-of-run cleanup has      *)
(* completed and the download has not begun, nothing is mounted and the    *)
(* device is detached, provided every cleanup command whose target existed *)
(* succeeded.                                                              *)
(***************************************************************************)
C4_CleanAfterStartCleanup ==
    (pc = "get_arch" /\ cleanupFaithful) => Clean

C4_Witness ==
    /\ pc = "get_arch"
    /\ cleanupFaithful
    /\ ~hostCleanAtStart
    /\ Clean

(***************************************************************************)
(* C5: on a host with nothing attached or mounted, where every cleanup     *)
(* command exits non-zero, the cleanup raises nothing and leaves the host  *)
(* Clean, in the first call and in a repeated one.                         *)
(***************************************************************************)
C5_CleanupOnCleanHostIsSafe ==
    (hostCleanAtStart /\ cleanupAllNonzero)
        => /\ failed # "cleanup"
           /\ (pc \in CleanupPcs \cup {"get_arch"} => (Clean /\ raised = <<>>))

C5_Witness ==
    /\ run = 2
    /\ prevCleanupQuiet
    /\ pc = "get_arch"
    /\ hostCleanAtStart
    /\ cleanupAllNonzero
    /\ cleanupIssued = CleanupCommands
    /\ Clean

C7Order == <<"download_validate", "image_resize", "attach", "mount", "partition_resize",
             "chroot_enter", "chroot_exit", "detach", "compress">>

C7_FailStopInOrder ==
    /\ \A i \in 2..Len(C7Order) : C7Order[i] \in started => C7Order[i-1] \in completed
    /\ failed \in PipelineLabels
         => \A l \in started :
                \/ StepPos(l) <= StepPos(failed)
                \/ (l = "chroot_exit" /\ failed \in InChrootLabels)
    /\ failed \in InChrootLabels => "chroot_exit" \notin completed
    /\ pc = "done" => ("compress" \in completed /\ compressed /\ failed = "none")

C7_Witness ==
    /\ pc = "done"
    /\ \A i \in 1..Len(C7Order) : C7Order[i] \in completed

(***************************************************************************)
(* C8 as stated: resolv.conf is replaced after the mount and before the    *)
(* partition and file system resize starts.                                *)
(***************************************************************************)
C8_ResolvBeforePartitionResize ==
    /\ "resolv" \in started => "mount" \in completed
    /\ "partition_resize" \in started => "resolv" \in completed

(***************************************************************************)
(* C8 amended: resolv.conf is replaced after the mount, after the          *)
(* partition and file system resize and the yq install have completed, and *)
(* before the chroot is entered.                                           *)
(***************************************************************************)
C8_ResolvBeforeChroot ==
    /\ "resolv" \in started => {"mount", "partition_resize", "yq"} \subseteq completed
    /\ "chroot_enter" \in started => ("resolv" \in completed /\ resolvReplaced)
    /\ resolvReplaced => "resolv" \in completed

C8_Witness ==
    /\ pc = "chroot_enter"
    /\ resolvReplaced
    /\ partResized
    /\ mounted

(***************************************************************************)
(* C9: the image resize is reached only from a manifest that has an entry  *)
(* for the downloaded file's name with _validate_checksum true for it; a   *)
(* missing entry or a mismatch raises BaseImageDownloadError and neither   *)
(* image resize, attach, mount, chroot nor compress is executed.           *)
(***************************************************************************)
C9_State ==
    /\ failed = "manifest_lookup" => ThisImagePath \notin DOMAIN shasums
    /\ failed = "checksum"
         => /\ ThisImagePath \in DOMAIN shasums
            /\ ~_validate_checksum(fileDigest, shasums[ThisImagePath])
    /\ failed \in {"manifest_lookup", "checksum"}
         => /\ pc = "raised"
            /\ raised = <<"BaseImageDownloadError">>
            /\ started \cap {"image_resize", "attach", "mount", "chroot_enter",
                             "compress"} = {}

C9_Step ==
    (pc # "resize_image" /\ pc' = "resize_image")
        => /\ ThisImagePath \in DOMAIN shasums
           /\ _validate_checksum(fileDigest, shasums[ThisImagePath])

C9_ResizeOnlyAfterValidChecksum == []C9_State /\ [][C9_Step]_vars

C9_Witness ==
    /\ pc = "resize_image"
    /\ "checksum" \in started
    /\ "download_validate" \in completed
    /\ fileDigest \in Digests

(***************************************************************************)
(* C10: a validation failure is never retried: after an unsupported        *)
(* architecture, a missing manifest entry or a checksum mismatch no        *)
(* download, manifest fetch or checksum computation happens in that run,   *)
(* and an unsupported architecture is detected before any download.        *)
(***************************************************************************)
C10_State ==
    /\ checksumCalls <= 1
    /\ failed = "arch"
         => /\ started \cap {"download", "fetch", "checksum"} = {}
            /\ fileDigest = "none"
            /\ checksumCalls = 0
    /\ _get_supported_runner_arch(arch) = "UnsupportedArchitectureError"
         => pc \in CleanupPcs \cup {"get_arch", "raised"}
    /\ failed \in {"arch", "manifest_lookup", "checksum"} => pc = "raised"

C10_Step ==
    (failed \in {"arch", "manifest_lookup", "checksum"} /\ run' = run)
        => UNCHANGED <<attempts, checksumCalls, fileDigest, shasums, started>>

C10_ValidationFailureNotRetried == []C10_State /\ [][C10_Step]_vars

C10_Witness ==
    /\ pc = "raised"
    /\ failed = "checksum"
    /\ checksumCalls = 1
    /\ attempts = [op \in RetryOps |-> 0]

(***************************************************************************)
(* C11: a retry-wrapped operation whose every attempt fails is attempted   *)
(* exactly its configured number of times (3: download, manifest fetch, yq *)
(* install; 5: mount, compress) and then the error of the last attempt     *)
(* leaves with its own type, no retry wrapper around it; once an attempt   *)
(* succeeds the operation is not attempted again.                          *)
(***************************************************************************)
RetryPc(op) == IF op = "yq" THEN "install_yq" ELSE op

C11_Tries(op) == IF op \in {"mount", "compress"} THEN 5 ELSE 3

C11_LastErrors(op) ==
    CASE op = "download" -> {<<"BaseImageDownloadError", "URLError">>}
      [] op = "fetch"    -> {<<"BaseImageDownloadError", "RequestException">>}
      [] op = "mount"    -> {<<"ImageConnectError", c>> :
                                 c \in {"CalledProcessError", "TimeoutExpired"}}
      [] op = "yq"       -> {<<"YQBuildError", c>> :
                                 c \in {"CalledProcessError", "TimeoutExpired"}}
      [] op = "compress" -> {<<"ImageCompressError", c>> :
                                 c \in {"CalledProcessError", "TimeoutExpired"}}

C11_State ==
    \A op \in RetryOps :
        /\ attempts[op] <= C11_Tries(op)
        /\ failed = op
             => /\ pc = "raised"
                /\ attempts[op] = C11_Tries(op)
                /\ raised \in C11_LastErrors(op)
        /\ (pc = "raised" /\ attempts[op] = C11_Tries(op)) => failed = op
        /\ op \in completed => attempts[op] = 0

C11_Step ==
    \A op \in RetryOps :
        (attempts'[op] # attempts[op] /\ run' = run)
            => /\ pc = RetryPc(op)
               /\ op \notin completed
               /\ \/ /\ attempts'[op] = attempts[op] + 1
                     /\ op \notin completed'
                     /\ pc' = IF attempts'[op] < C11_Tries(op) THEN pc ELSE "raised"
                  \/ /\ attempts'[op] = 0
                     /\ op \in completed'
                     /\ pc' \notin {pc, "raised"}

C11_RetryExactlyConfiguredTimes == []C11_State /\ [][C11_Step]_vars

C11_Witness ==
    /\ pc = "raised"
    /\ failed = "compress"
    /\ attempts["compress"] = 5
    /\ raised = <<"ImageCompressError", "TimeoutExpired">>
    /\ {"download", "fetch", "mount", "yq"} \subseteq completed

(***************************************************************************)
(* C12 as stated: within one run of build_image only the download, the     *)
(* manifest fetch, the partition mount and the compression are attempted   *)
(* more than once; every other operation, the yq install included, is      *)
(* attempted at most once.                                                 *)
(***************************************************************************)
PcOrder == <<"umount_dev", "umount_proc", "umount_sys", "umount_mountdir", "umount_nbd",
             "umount_nbdp1", "cdisc_nbd", "cdisc_nbdp1", "get_arch", "download", "fetch",
             "lookup", "validate", "resize_image", "connect", "mount", "growpart",
             "resize2fs", "install_yq", "resolv", "chroot_enter", "apt_update",
             "apt_install", "disable_upgrades", "configure_users", "configure_bin",
             "install_yarn", "chroot_exit", "ddisc_nbd", "ddisc_nbdp1", "compress",
             "done", "raised">>

PcPos(p) == CHOOSE i \in 1..Len(PcOrder) : PcOrder[i] = p

\* within a run the position only advances: no operation is come back to
C12_Forward == run' = run => PcPos(pc') >= PcPos(pc)

C12_OnlyFourRepeat ==
    [][/\ C12_Forward
       /\ (run' = run /\ pc' = pc) => pc \in {"download", "fetch", "mount", "compress"}]_vars

(***************************************************************************)
(* C12 amended: within one run of build_image only the download, the       *)
(* manifest fetch, the partition mount, the yq install and the compression *)
(* are attempted more than once; every other operation (cleanup commands,  *)
(* image resize, attach, partition resize, resolv.conf replacement, chroot *)
(* entry, each chroot step, chroot exit, detach) is attempted at most once.*)
(***************************************************************************)
C12_OnlyRetryWrappedRepeat ==
    [][/\ C12_Forward
       /\ (run' = run /\ pc' = pc) => pc \in {RetryPc(op) : op \in RetryOps}]_vars

C12_Witness ==
    /\ pc = "install_yq"
    /\ attempts["yq"] = 2
    /\ {"image_resize", "attach", "mount", "partition_resize"} \subseteq completed

(***************************************************************************)
(* C13: the attach (qemu-nbd --connect) is issued only while /dev/nbd0 is  *)
(* not connected, whatever the outcome of the cleanup commands before it.  *)
(***************************************************************************)
C13_AttachOnlyWhenFree ==
    pc = "connect" => ~attached

(***************************************************************************)
(* C14: when an operation inside the chroot block raises, then before the  *)
(* error leaves build_image the process root has been restored and an      *)
(* unbind has been attempted for each of dev, proc and sys, also when one  *)
(* of the unbinds fails.                                                   *)
(***************************************************************************)
C14_UnwindBeforePropagation ==
    /\ failed \in InChrootLabels => pc \in {"chroot_exit", "raised"}
    /\ (failed \in InChrootLabels /\ pc = "raised")
         => /\ ~chrooted
            /\ unbindAttempted = Binds
            /\ raised # <<>>

C14_Witness ==
    /\ pc = "raised"
    /\ failed = "apt_install"
    /\ ~chrooted
    /\ unbindAttempted = Binds
    /\ binds = {"proc"}

(***************************************************************************)
(* C17: the cleanup issues its commands in a fixed order: umount dev,      *)
(* proc, sys, the mount directory, the nbd device, the nbd partition, then *)
(* the disconnects.  The binds are unmounted before the mount directory,   *)
(* the disconnects come after all unmounts, and a non-zero exit of a       *)
(* command does not keep the later ones from being issued.                 *)
(***************************************************************************)
C17_CommandOrder == <<"umount_dev", "umount_proc", "umount_sys", "umount_mountdir",
                      "umount_nbd", "umount_nbdp1", "cdisc_nbd", "cdisc_nbdp1">>

C17_State ==
    /\ pc \in CleanupPcs
         => /\ cleanupIssued < Len(C17_CommandOrder)
            /\ pc = C17_CommandOrder[cleanupIssued + 1]
    /\ (pc \notin CleanupPcs /\ failed # "cleanup")
         => cleanupIssued = Len(C17_CommandOrder)

C17_Step ==
    pc \in CleanupPcs
        => /\ binds' # binds => (cleanupIssued < 3 /\ binds' \subseteq binds)
           /\ mounted' # mounted => (cleanupIssued \in 3..5 /\ ~mounted')
           /\ attached' # attached => (cleanupIssued \in 6..7 /\ ~attached')
           /\ cleanupIssued' = cleanupIssued + 1
           /\ pc' = "raised" => raised'[Len(raised')] = "TimeoutExpired"

C17_CleanupOrder == []C17_State /\ [][C17_Step]_vars

C17_Witness ==
    /\ pc = "get_arch"
    /\ cleanupIssued = Len(C17_CommandOrder)
    /\ ~hostCleanAtStart
    /\ ~cleanupFaithful
    /\ ~attached
    /\ mounted

(***************************************************************************)
(* C16: for every external command of initialize and build_image that must *)
(* succeed, the expiry of its timeout has the same outcome as a non-zero   *)
(* exit: the same typed error leaves the call.                             *)
(***************************************************************************)
C16_MustSucceedLabels ==
    {"dependencies", "nbd_module", "image_resize", "attach", "mount", "partition_resize",
     "yq", "detach", "compress"} \cup InChrootLabels

\* the typed error chain around the subprocess error when the command exits non-zero
C16_ErrorOnNonzero(l) ==
    CASE l = "dependencies"     -> <<"DependencyInstallError">>
      [] l = "nbd_module"       -> <<"NetworkBlockDeviceError">>
      [] l = "image_resize"     -> <<"ImageResizeError">>
      [] l \in {"attach", "mount", "detach"} -> <<"ImageConnectError">>
      [] l = "partition_resize" -> <<"ResizePartitionError">>
      [] l = "yq"               -> <<"YQBuildError">>
      [] l \in {"apt_update", "apt_install"} -> <<>>
      [] l = "disable_upgrades" -> <<"UnattendedUpgradeDisableError">>
      [] l = "configure_users"  -> <<"SystemUserConfigurationError">>
      [] l = "configure_bin"    -> <<"PermissionConfigurationError">>
      [] l = "install_yarn"     -> <<"YarnInstallError">>
      [] l = "compress"         -> <<"ImageCompressError">>

C16_TimeoutSameAsNonzero ==
    (pc = "raised" /\ failed \in C16_MustSucceedLabels)
        => /\ raised # <<>>
           /\ SubSeq(raised, 1, Len(raised) - 1) = C16_ErrorOnNonzero(failed)

(***************************************************************************)
(* C15: with two build_image invocations running at once a state is        *)
(* reachable in which the start-of-run cleanup of one unmounts or detaches *)
(* /dev/nbd0 or the mount directory while the other has them attached and  *)
(* mounted and is still inside its chroot steps; nothing in the code keeps *)
(* a cleanup command from running or from taking effect because of where   *)
(* the other invocation is.                                                *)
(***************************************************************************)
InChrootPcs == {"apt_update", "apt_install", "disable_upgrades", "configure_users",
                "configure_bin", "install_yarn"}

C15_NoLockOnSharedDevice ==
    /\ pcB \in CleanupPcs => ENABLED OtherCleanup
    /\ (pcB \in {"cdisc_nbd", "cdisc_nbdp1"} /\ attached)
         => ENABLED (OtherCleanup /\ ~attached')
    /\ \A b \in Binds :
         (pcB = "umount_" \o b /\ b \in binds) => ENABLED (OtherCleanup /\ b \notin binds')

C15_Witness ==
    /\ pc \in InChrootPcs
    /\ chrooted
    /\ mounted
    /\ "attach" \in completed
    /\ ~attached
    /\ binds # Binds
    /\ pcB = "get_arch"

(***************************************************************************)
(* C18: for N images of one name with distinct creation times and a        *)
(* retention count 0 <= k < N, when every deletion succeeds the pruning    *)
(* deletes exactly the N - k oldest images (all of them for k = 0), and    *)
(* get_latest_build_id afterwards returns the id of the newest surviving   *)
(* image.                                                                  *)
(***************************************************************************)
Found == {snapshot[i] : i \in 1..Len(snapshot)}

\* the image of reg created last ("" when there is none)
NewestId(reg) ==
    IF reg = {} THEN ""
    ELSE (CHOOSE x \in reg : \A y \in reg : y.created_at <= x.created_at).id

\* upload_image has returned, so its pruning has ended with no failed deletion
PruningSucceeded == spc = "idle" /\ result # "none"

C18_PruneKeepsNewest ==
    (PruningSucceeded /\ num_revisions < Len(snapshot))
        => /\ registry \subseteq Found
           /\ Cardinality(Found \ registry) = Len(snapshot) - num_revisions
           /\ Cardinality(registry) = num_revisions
           /\ \A d \in Found \ registry : \A r \in registry : d.created_at < r.created_at
           /\ deleteAttempted = {d.id : d \in Found \ registry}
           /\ latest # "unknown" => latest = NewestId(registry)

C18_Witness ==
    /\ PruningSucceeded
    /\ Len(snapshot) = MaxImages + 1
    /\ num_revisions = 2
    /\ Cardinality(registry) = 2
    /\ latest = result
    /\ result = NewestId(registry)

(***************************************************************************)
(* C19: in store._prune_old_images every image beyond the retention count  *)
(* gets its own delete attempt; a delete that returns false or raises does *)
(* not keep the remaining delete attempts from being made.                 *)
(***************************************************************************)
C19_EveryStaleImageAttempted ==
    (spc = "idle" /\ lastCall = "upload" /\ snapshot # <<>>)
        => deleteAttempted = {snapshot[i].id : i \in (num_revisions + 1)..Len(snapshot)}

(***************************************************************************)
(* C20: store.upload_image returns the id of the new image whenever        *)
(* create_image succeeded, also when the pruning after it fails: a pruning *)
(* failure never turns a successful upload into a raised error.            *)
(***************************************************************************)
C20_UploadReturnsIdDespitePruning ==
    (spc = "idle" /\ lastCall = "upload" /\ image # "none")
        => (sraised = <<>> /\ result = image)

ListingOf(contents) == CHOOSE lines \in Listings : ShasumFile(lines) = contents

C22_ManifestLookup ==
    LET lines == ListingOf(shasum_contents)
        listed == {lines[i][2] : i \in 1..Len(lines)}
    IN  /\ mpc \in {"lookup", "found", "raised"}
           => /\ DOMAIN manifest = listed
              /\ \A i \in 1..Len(lines) : manifest[lines[i][2]] = lines[i][1]
        /\ mpc = "found" => /\ lookup_name \in listed
                            /\ \E i \in 1..Len(lines) :
                                   lines[i] = <<expected, lookup_name>>
                            /\ lookup_error = ""
        /\ mpc = "raised" => /\ lookup_name \notin listed
                             /\ lookup_error = "Corresponding checksum not found."
        /\ (mpc \in {"found", "raised"}) => (mpc = "found" <=> lookup_name \in listed)

C22_Witness ==
    /\ mpc = "found"
    /\ Len(ListingOf(shasum_contents)) = 2
    /\ lookup_name = <<"j">>
    /\ expected = <<"a", "1">>
    /\ <<"j", "n">> \in DOMAIN manifest

(***************************************************************************)
(* C23: _validate_checksum(file, d) returns true exactly when d is the     *)
(* SHA-256 hex digest of the whole content of the file, however the        *)
(* content falls into chunks (the empty file included); on a mismatch it   *)
(* returns false and does not raise, in particular when d is the digest of *)
(* a content that differs from the file's in a single byte.                *)
(***************************************************************************)
\* the contents that differ from c in exactly one byte
OneByteChanged(c) ==
    {m \in Contents : /\ Len(m) = Len(c)
                      /\ Cardinality({i \in 1..Len(c) : m[i] # c[i]}) = 1}

C23_ChecksumOfWholeContent ==
    vpc = "returned"
        => /\ valid = (expected_digest = hexdigest(update(0, content)))
           /\ offset = Len(content)
           /\ \A m \in OneByteChanged(content) :
                  expected_digest = hexdigest(update(0, m)) => ~valid

C23_Witness ==
    /\ vpc = "returned"
    /\ Len(content) > CHECKSUM_BUF_SIZE
    /\ Len(content) % CHECKSUM_BUF_SIZE # 0
    /\ valid

(***************************************************************************)
(* C24: in cli.run the callback script is invoked at most once, only after *)
(* the build and the upload have both completed successfully, and with the *)
(* id of the uploaded image as its first argument; when the build or the   *)
(* upload fails it is never invoked.                                       *)
(***************************************************************************)
C24_State ==
    /\ Len(callbacks) <= 1
    /\ callbacks # <<>>
          => /\ callback_script
             /\ callbacks[1] = <<"callback_script", image_id>>
             /\ rpc \in {"done", "raised"}
             /\ IF experimental_external
                THEN image_id = "snapshot" /\ pc = "none"
                ELSE /\ pc = "done"
                     /\ compressed
                     /\ lastCall = "upload"
                     /\ sraised = <<>>
                     /\ image # "none"
                     /\ image_id = image
    /\ (pc = "raised" \/ sraised # <<>> \/ (rpc = "raised" /\ image_id = "none"))
          => callbacks = <<>>

\* the callback is the last thing cli.run does
C24_Step == callbacks' # callbacks => (rpc = "callback" /\ rpc' \in {"done", "raised"})

C24_CallbackOnlyAfterUpload == []C24_State /\ [][C24_Step]_vars

C24_Witness ==
    /\ rpc = "done"
    /\ ~experimental_external
    /\ pc = "done"
    /\ callbacks = <<<<"callback_script", ImageId(MaxImages + 1)>>>>

(***************************************************************************)
(* C25: each step function turns a failure of a subprocess, a non-zero     *)
(* exit or a timeout, into its own error type with the subprocess error as *)
(* its cause; no bare subprocess error leaves it: _unmount_build_path,     *)
(* _resize_image, _connect_image_to_network_block_device (the mount        *)
(* retries exhausted included), _disconnect_image_to_network_block_device, *)
(* _resize_mount_partitions, _install_yq, _disable_unattended_upgrades,    *)
(* _configure_system_users, _configure_usr_local_bin, _install_yarn.       *)
(***************************************************************************)
SubprocessErrors == {"CalledProcessError", "TimeoutExpired"}

C25_StepLabels ==
    {"cleanup", "image_resize", "attach", "mount", "detach", "partition_resize", "yq",
     "disable_upgrades", "configure_users", "configure_bin", "install_yarn"}

\* the error types of the step function that failed at label l
C25_ErrorTypes(l) ==
    CASE l = "cleanup"          -> {"UnmountBuildPathError", "ImageConnectError"}
      [] l = "image_resize"     -> {"ImageResizeError"}
      [] l \in {"attach", "mount", "detach"} -> {"ImageConnectError"}
      [] l = "partition_resize" -> {"ResizePartitionError"}
      [] l = "yq"               -> {"YQBuildError"}
      [] l = "disable_upgrades" -> {"UnattendedUpgradeDisableError"}
      [] l = "configure_users"  -> {"SystemUserConfigurationError"}
      [] l = "configure_bin"    -> {"PermissionConfigurationError"}
      [] l = "install_yarn"     -> {"YarnInstallError"}

\* the error on its way out of build_image
C25_Propagating ==
    IF pc = "raised" THEN raised ELSE IF pc = "chroot_exit" THEN pending ELSE <<>>

C25_TypedErrorWithCause ==
    (C25_Propagating # <<>> /\ failed \in C25_StepLabels)
        => /\ Len(C25_Propagating) = 2
           /\ C25_Propagating[1] \in C25_ErrorTypes(failed)
           /\ C25_Propagating[2] \in SubprocessErrors

C25_Witness ==
    /\ pc = "raised"
    /\ failed = "mount"
    /\ attempts["mount"] = MOUNT_TRIES
    /\ raised = <<"ImageConnectError", "TimeoutExpired">>

(***************************************************************************)
(* C26: OpenstackManager._prune_old_images never raises because a deletion *)
(* failed: a delete that returns false or raises is logged, the deletes of *)
(* the remaining stale images are still attempted, and the create_image of *)
(* upload_image that follows is still performed.                           *)
(***************************************************************************)
\* the ids of the images the call has found stale
C26_Stale ==
    LET stale == Slice(snapshot, num_revisions - 1)
    IN  {stale[i].id : i \in 1..Len(stale)}

C26_State ==
    /\ (lastCall = "m_upload" /\ spc = "m_create") => deleteAttempted = C26_Stale
    /\ (lastCall = "m_upload" /\ spc = "idle")
          => \/ sraised = <<"OpenstackConnectionError", "OpenStackCloudException">>
             \/ /\ deleteAttempted = C26_Stale
                /\ \/ image # "none" /\ sraised = <<>> /\ result = image
                   \/ image = "none"
                      /\ sraised = <<"UploadImageError", "OpenStackCloudException">>

\* a round of the loop goes on to the next round or to create_image
C26_Step ==
    spc = "m_delete"
        => /\ spc' \in {"m_delete", "m_create"}
           /\ sraised' = <<>>
           /\ images_to_prune' = Tail(images_to_prune)

C26_PruneFailureNeverRaises == []C26_State /\ [][C26_Step]_vars

C26_Witness ==
    /\ lastCall = "m_upload"
    /\ spc = "idle"
    /\ image # "none"
    /\ Cardinality(deleteAttempted) >= 2
    /\ \E x \in registry : x.id \in deleteAttempted
    /\ \E y \in deleteAttempted : \A x \in registry : x.id # y

(***************************************************************************)
(* C27: in every upload path (store.upload_image, store.create_snapshot,   *)
(* OpenstackManager.upload_image) an existing image is deleted only after  *)
(* the new image has been created: when the creation fails the images of   *)
(* the name are those there were before the call.                          *)
(***************************************************************************)
C27_DeleteOnlyAfterCreate ==
    [][(registry \ registry') # {} => image # "none"]_vars

(***************************************************************************)
(* C28: whenever store.upload_image returns an image id, an image with     *)
(* that id exists in the registry at that moment, for every keep_revisions *)
(* >= 0 and every prior content of the registry (nobody else deleting).    *)
(***************************************************************************)
\* store.upload_image has returned an id
C28_Returned == spc = "idle" /\ lastCall = "upload" /\ result # "none"

C29_ReturnedAllDeleted ==
    /\ spc = "idle"
    /\ lastCall = "m_upload"
    /\ result # "none"
    /\ \A x \in registry : x.id \notin deleteAttempted

C29_AtMostNumRevisions ==
    C29_ReturnedAllDeleted
        => Cardinality(registry) <= IF num_revisions > 1 THEN num_revisions ELSE 1

(***************************************************************************)
(* C30: two store.upload_image calls for the same name with the same       *)
(* keep_revisions k >= 1 run at the same time against a registry that      *)
(* deletes an image that exists and answers false for one already deleted: *)
(* in every interleaving both calls return the id of their new image       *)
(* without error, and afterwards exactly the min(k, total) newest images   *)
(* of the name remain.                                                     *)
(***************************************************************************)
\* both calls have ended, and the cloud failed neither's create or search
C30_BothEnded ==
    /\ lastCall = "upload"
    /\ spc = "idle"
    /\ spcB = "done"
    /\ num_revisions >= 1
    /\ \A chain \in {sraised, sraisedB} :
          \A i \in 1..Len(chain) : chain[i] # "OpenStackCloudException"

\* every image of the name there has been: those left and those either call saw
C30_Total ==
    registry \cup {snapshot[i] : i \in 1..Len(snapshot)}
             \cup {snapshotB[i] : i \in 1..Len(snapshotB)}

C30_BothReturnNewestRemain ==
    C30_BothEnded
        => /\ sraised = <<>> /\ result = image /\ image # "none"
           /\ sraisedB = <<>> /\ resultB = imageB /\ imageB # "none"
           /\ Cardinality(registry) = IF num_revisions < Cardinality(C30_Total)
                                       THEN num_revisions ELSE Cardinality(C30_Total)
           /\ \A d \in C30_Total \ registry : \A r \in registry :
                  d.created_at < r.created_at

(***************************************************************************)
(* _determine_flavor of openstack_builder.py.  A flavor is a record        *)
(* [id, name, vcpus, ram, disk]; conn.list_flavors() returns flavors.      *)
(***************************************************************************)
MaxFlavors == 2     \* flavors the cloud lists

MIN_CPU  == 2
MIN_RAM  == 8192
MIN_DISK == 20

FlavorVcpus == {1, 2, 4}
FlavorRams  == {4096, 8192, 16384}
FlavorDisks == {10, 20, 40}

FlavorId(n)     == "flavor-" \o ToString(n)
FlavorNameOf(n) == "m1.size" \o ToString(n)

\* the lists of n flavors conn.list_flavors() may return: ids and names are distinct
FlavorLists(n) ==
    {[i \in 1..n |-> [id |-> FlavorId(i), name |-> FlavorNameOf(i),
                      vcpus |-> p[i][1], ram |-> p[i][2], disk |-> p[i][3]]] :
        p \in [1..n -> FlavorVcpus \X FlavorRams \X FlavorDisks]}

\* flavor.vcpus >= MIN_CPU and flavor.ram >= MIN_RAM and flavor.disk >= MIN_DISK
MeetsMinimum(f) ==
    f.vcpus >= MIN_CPU /\ f.ram >= MIN_RAM /\ f.disk >= MIN_DISK

\* conn.get_flavor(name_or_id=...): the flavors of that name or id (<<>>: None)
get_flavor(list, name_or_id) ==
    SelectSeq(list, LAMBDA f : f.name = name_or_id \/ f.id = name_or_id)

\* (a.vcpus, a.ram, a.disk) < (b.vcpus, b.ram, b.disk) as Python compares tuples
KeyLess(a, b) ==
    \/ a.vcpus < b.vcpus
    \/ a.vcpus = b.vcpus /\ a.ram < b.ram
    \/ a.vcpus = b.vcpus /\ a.ram = b.ram /\ a.disk < b.disk

\* f put into the sorted list after every element whose key is not greater
InsertByKey(sortedList, f) ==
    LET before == SelectSeq(sortedList, LAMBDA g : ~KeyLess(f, g))
        after  == SelectSeq(sortedList, LAMBDA g : KeyLess(f, g))
    IN  before \o <<f>> \o after

RECURSIVE sorted_by_key(_)
\* as sorted_by_key, but the list is left in the order the cloud gave it
sorted_by_key_unsorted(list) == list

\* sorted(flavors, key=lambda flavor: (flavor.vcpus, flavor.ram, flavor.disk)): stable
sorted_by_key(list) ==
    IF list = <<>> THEN <<>>
    ELSE InsertByKey(sorted_by_key(SubSeq(list, 1, Len(list) - 1)), list[Len(list)])

\* _determine_flavor(conn, flavor_name): the id returned or the error raised
_determine_flavor(list, name) ==
    IF name # ""
    THEN LET found == get_flavor(list, name)
         IN  IF found = <<>>
             THEN [id |-> "none", raised |-> "FlavorNotFoundError"]
             ELSE IF ~MeetsMinimum(Head(found))
             THEN [id |-> "none", raised |-> "FlavorRequirementsNotMetError"]
             ELSE [id |-> Head(found).id, raised |-> "none"]
    ELSE LET fit == SelectSeq(sorted_by_key(list), MeetsMinimum)
         IN  IF fit = <<>>
             THEN [id |-> "none", raised |-> "FlavorNotFoundError"]
             ELSE [id |-> Head(fit).id, raised |-> "none"]

\* _determine_flavor applied to the inputs
DetermineFlavor ==
    /\ fpc = "call"
    /\ fpc' = "end"
    /\ flavor' = _determine_flavor(flavors, flavor_name)
    /\ UNCHANGED <<flavors, flavor_name, ctl, host, files, hist, pcB, cloud, checks, clirun,
                   uploadB, extrun, shared>>

InitFlavor ==
    /\ pc = "none"
    /\ Fresh
    /\ Clean
    /\ arch = "x64"
    /\ base_image = "jammy"
    /\ pcB = "absent"
    /\ NoCloud
    /\ NoManifest
    /\ NoFile
    /\ NoCliRun
    /\ NoUploadB
    /\ NoExternalRun
    /\ NoShared
    /\ \E n \in 0..MaxFlavors : flavors \in FlavorLists(n)
    /\ flavor_name \in {""} \cup {FlavorNameOf(n) : n \in 1..MaxFlavors}
    /\ fpc = "call"
    /\ flavor = NoFlavor

NextFlavor == DetermineFlavor

SpecFlavor == InitFlavor /\ [][NextFlavor]_vars

(***************************************************************************)
(* openstack_builder.run: a builder server is launched, cloud-init on it   *)
(* is waited for, the server is snapshotted with store.create_snapshot,    *)
(* the snapshot is waited for and, when an upload cloud is named,          *)
(* downloaded and uploaded with store.upload_image; then the server is     *)
(* deleted.  create_snapshot and upload_image are the store functions of   *)
(* SpecStore, working on the images named image_config.name; the upload    *)
(* cloud is taken to be the cloud of the snapshot.                         *)
(***************************************************************************)
MaxAttempts == 2    \* attempts counted; further ones leave the counters as they are

\* as SNAPSHOT_POLLS, but the loop makes one poll less
SNAPSHOT_POLLS_oneLess == 10 - 1

\* range(10): the polls of the for loop, each followed by time.sleep(60)
SNAPSHOT_POLLS == 10

Addresses == {"10.0.0.1", "10.0.0.2"}

\* image.status: "active" and one other
Statuses == {"active", "saving"}

\* what ssh_connection.run("cloud-init status --wait", timeout=60 * 10) gives: None,
\* a result that is not ok, an ok result without and with "status: done" in its
\* output, or the timeout
CloudInitResults == {"None", "failed", "running", "done", "CommandTimedOut"}

\* what the steps of openstack_builder.run leave alone, the store apart
aroundRun == <<ctl, host, files, hist, pcB, checks, clirun, uploadB, shared>>

Counted(n) == IF n < MaxAttempts THEN n + 1 ELSE n

\* an error leaves openstack_builder.run
run_raises(chain) ==
    /\ xpc' = "raised"
    /\ xraised' = chain

\* flavor = _determine_flavor(conn=conn, flavor_name=cloud_config.flavor)
run_determine_flavor ==
    /\ xpc = "flavor"
    /\ flavor' = _determine_flavor(flavors, flavor_name)
    /\ IF flavor'.raised # "none"
       THEN run_raises(<<flavor'.raised>>)
       ELSE xpc' = "network" /\ UNCHANGED xraised
    /\ UNCHANGED <<upload_cloud_name, keep_revisions, builder, deletedServers, ciAttempts,
                   sshAttempts, ciResult, ximage, seen, xresult, flavors, flavor_name, fpc,
                   cloud, aroundRun>>

\* network = _determine_network(conn=conn, network_name=cloud_config.network)
_determine_network ==
    /\ xpc = "network"
    /\ \/ xpc' = "create_server" /\ UNCHANGED xraised
       \/ run_raises(<<"NetworkNotFoundError">>)
    /\ UNCHANGED <<upload_cloud_name, keep_revisions, builder, deletedServers, ciAttempts,
                   sshAttempts, ciResult, ximage, seen, xresult, flavorsel, cloud, aroundRun>>

\* builder = conn.create_server(..., timeout=CREATE_SERVER_TIMEOUT, wait=True), and
\* _wait_for_cloud_init_complete is called
create_server ==
    /\ xpc = "create_server"
    /\ \/ /\ builder' = "server-1"
          /\ xpc' = "ssh"
          /\ ciAttempts' = 1
          /\ UNCHANGED xraised
       \/ /\ run_raises(<<"OpenStackCloudException">>)
          /\ UNCHANGED <<builder, ciAttempts>>
    /\ UNCHANGED <<upload_cloud_name, keep_revisions, deletedServers, sshAttempts, ciResult,
                   ximage, seen, xresult, flavorsel, cloud, aroundRun>>

\* tenacity.retry without a retry argument: every exception is retried
retry_if_exception(outcome) == outcome.raised # "none"

\* one call of the function wrapped as _get_ssh_connection: the server's addresses
\* are tried in turn; no stop is given to tenacity.retry, so a raise is retried
_get_ssh_connection ==
    /\ xpc = "ssh"
    /\ sshAttempts' = Counted(sshAttempts)
    /\ \E addresses \in SUBSET Addresses, reachable \in SUBSET Addresses :
          LET outcome == IF addresses \cap reachable = {}
                         THEN [raised |-> "AddressNotFoundError", value |-> FALSE]
                         ELSE [raised |-> "none", value |-> TRUE]
          IN  xpc' = IF retry_if_exception(outcome) THEN "ssh" ELSE "cloud_init"
    /\ UNCHANGED <<upload_cloud_name, keep_revisions, builder, deletedServers, ciAttempts,
                   ciResult, ximage, seen, xraised, xresult, flavorsel, cloud, aroundRun>>

\* what one call of the function wrapped as _wait_for_cloud_init_complete does with
\* the result of the status command
CloudInitOutcome(r) ==
    IF r = "CommandTimedOut" THEN [raised |-> r, value |-> FALSE]
    ELSE IF r \in {"None", "failed"} THEN [raised |-> "CloudInitFailError", value |-> FALSE]
    ELSE [raised |-> "none", value |-> (r = "done")]

\* as retry_if_result, but an exception is retried as well
retry_if_result_or_exception(outcome) ==
    outcome.raised # "none" \/ ~outcome.value

\* retry=tenacity.retry_if_result(lambda result: not result)
retry_if_result(outcome) ==
    outcome.raised = "none" /\ ~outcome.value

\* the status command of one call of the function wrapped as
\* _wait_for_cloud_init_complete, and what tenacity.retry(reraise=True) does next;
\* no stop is given
_wait_for_cloud_init_complete ==
    /\ xpc = "cloud_init"
    /\ \E r \in CloudInitResults :
          LET outcome == CloudInitOutcome(r)
          IN  /\ ciResult' = r
              /\ IF retry_if_result(outcome)
                 THEN /\ xpc' = "ssh"
                      /\ ciAttempts' = Counted(ciAttempts)
                      /\ sshAttempts' = 0
                      /\ UNCHANGED xraised
                 ELSE IF outcome.raised # "none"
                 THEN /\ run_raises(<<outcome.raised>>)
                      /\ UNCHANGED <<ciAttempts, sshAttempts>>
                 ELSE /\ xpc' = "snapshot"
                      /\ UNCHANGED <<xraised, ciAttempts, sshAttempts>>
    /\ UNCHANGED <<upload_cloud_name, keep_revisions, builder, deletedServers, ximage, seen,
                   xresult, flavorsel, cloud, aroundRun>>

\* image = store.create_snapshot(cloud_name=..., image_name=..., server=builder,
\* keep_revisions=keep_revisions): create_snapshot is upload_image with
\* connection.create_image_snapshot in the place of connection.create_image
create_snapshot ==
    /\ xpc = "snapshot"
    /\ lastCall = "none"
    /\ upload_image
    /\ num_revisions' = keep_revisions

\* the call gives create_snapshot no arch, which its signature requires
create_snapshot_TypeError ==
    /\ xpc = "snapshot"
    /\ lastCall = "none"
    /\ run_raises(<<"TypeError">>)
    /\ UNCHANGED <<upload_cloud_name, keep_revisions, builder, deletedServers, ciAttempts,
                   sshAttempts, ciResult, ximage, seen, xresult, flavorsel, cloud, aroundRun>>

\* create_snapshot has returned the image, or its error leaves run
create_snapshot_returns ==
    /\ xpc = "snapshot"
    /\ spc = "idle"
    /\ lastCall = "upload"
    /\ lastCall' = "none"
    /\ IF sraised = <<>>
       THEN /\ ximage' = result
            /\ xpc' = "poll"
            /\ UNCHANGED xraised
       ELSE /\ run_raises(sraised)
            /\ UNCHANGED ximage
    /\ UNCHANGED <<upload_cloud_name, keep_revisions, builder, deletedServers, ciAttempts,
                   sshAttempts, ciResult, seen, xresult, flavorsel, aroundRun,
                   registry, spc, num_revisions, image, images_to_prune, result, latest,
                   sraised, snapshot, deleteAttempted, uploads>>

\* one poll of _wait_for_snapshot_complete: image = conn.get_image(name_or_id=image.id)
\* and the test of image.status; get_image gives None for an image that is gone
_wait_for_snapshot_complete ==
    /\ xpc = "poll"
    /\ IF ximage \notin {x.id : x \in registry}
       THEN /\ run_raises(<<"AttributeError">>)
            /\ UNCHANGED seen
       ELSE \E status \in Statuses :
              /\ seen' = Append(seen, status)
              /\ IF status = "active"
                 THEN /\ xpc' = IF upload_cloud_name THEN "download" ELSE "delete_server"
                      /\ UNCHANGED xraised
                 ELSE IF Len(seen) < SNAPSHOT_POLLS
                 THEN /\ xpc' = "poll"
                      /\ UNCHANGED xraised
                 ELSE run_raises(<<"TimeoutError">>)
    /\ UNCHANGED <<upload_cloud_name, keep_revisions, builder, deletedServers, ciAttempts,
                   sshAttempts, ciResult, ximage, xresult, flavorsel, cloud, aroundRun>>

\* conn.download_image(name_or_id=image.id, output_file=..., stream=True)
download_image ==
    /\ xpc = "download"
    /\ \/ xpc' = "upload" /\ UNCHANGED xraised
       \/ run_raises(<<"OpenStackCloudException">>)
    /\ UNCHANGED <<upload_cloud_name, keep_revisions, builder, deletedServers, ciAttempts,
                   sshAttempts, ciResult, ximage, seen, xresult, flavorsel, cloud, aroundRun>>

\* image = store.upload_image(..., keep_revisions=keep_revisions)
run_upload_image ==
    /\ xpc = "upload"
    /\ lastCall = "none"
    /\ upload_image
    /\ num_revisions' = keep_revisions

\* upload_image has returned the id, a str, and logger.info is given image.id and
\* image.name; or its error leaves run
run_upload_image_returns ==
    /\ xpc = "upload"
    /\ spc = "idle"
    /\ lastCall = "upload"
    /\ lastCall' = "none"
    /\ IF sraised = <<>>
       THEN /\ ximage' = result
            /\ run_raises(<<"AttributeError">>)
       ELSE /\ run_raises(sraised)
            /\ UNCHANGED ximage
    /\ UNCHANGED <<upload_cloud_name, keep_revisions, builder, deletedServers, ciAttempts,
                   sshAttempts, ciResult, seen, xresult, flavorsel, aroundRun,
                   registry, spc, num_revisions, image, images_to_prune, result, latest,
                   sraised, snapshot, deleteAttempted, uploads>>

\* conn.delete_server(name_or_id=builder.id, wait=True, timeout=5 * 60);
\* return str(image.id)
delete_server ==
    /\ xpc = "delete_server"
    /\ deletedServers' = deletedServers \cup {builder}
    /\ \/ /\ xpc' = "returned"
          /\ xresult' = ximage
          /\ UNCHANGED xraised
       \/ /\ run_raises(<<"OpenStackCloudException">>)
          /\ UNCHANGED xresult
    /\ UNCHANGED <<upload_cloud_name, keep_revisions, builder, ciAttempts, sshAttempts,
                   ciResult, ximage, seen, flavorsel, cloud, aroundRun>>

InitExternal ==
    /\ pc = "none"
    /\ Fresh
    /\ Clean
    /\ arch = "x64"
    /\ base_image = "jammy"
    /\ pcB = "absent"
    /\ NoManifest
    /\ NoFile
    /\ NoCliRun
    /\ NoUploadB
    /\ NoShared
    /\ registry \in {{}, {[id |-> ImageId(1), created_at |-> 1]}}
    /\ spc = "idle"
    /\ num_revisions = 0
    /\ image = "none"
    /\ images_to_prune = <<>>
    /\ lastCall = "none"
    /\ result = "none"
    /\ latest = "unknown"
    /\ sraised = <<>>
    /\ snapshot = <<>>
    /\ deleteAttempted = {}
    /\ uploads = 0
    /\ xpc = "flavor"
    /\ upload_cloud_name \in BOOLEAN
    /\ keep_revisions \in 0..MaxKeep
    /\ builder = "none"
    /\ deletedServers = {}
    /\ ciAttempts = 0
    /\ sshAttempts = 0
    /\ ciResult = "unset"
    /\ ximage = "none"
    /\ seen = <<>>
    /\ xraised = <<>>
    /\ xresult = "none"
    /\ flavors \in FlavorLists(0) \cup {list \in FlavorLists(1) :
                                           list[1].vcpus = MIN_CPU /\ list[1].ram = MIN_RAM}
    /\ flavor_name = ""
    /\ fpc = "idle"
    /\ flavor = NoFlavor

NextExternal ==
    \/ run_determine_flavor \/ _determine_network \/ create_server
    \/ _get_ssh_connection \/ _wait_for_cloud_init_complete
    \/ create_snapshot \/ create_snapshot_TypeError \/ create_snapshot_returns
    \/ create_image \/ _prune_old_images \/ delete_image
    \/ _wait_for_snapshot_complete \/ download_image
    \/ run_upload_image \/ run_upload_image_returns \/ delete_server

SpecExternal == InitExternal /\ [][NextExternal]_vars

(***************************************************************************)
(* C31: every builder server created by openstack_builder.run has had      *)
(* delete_server issued for it by the time run returns or raises, on every *)
(* exit path.                                                              *)
(***************************************************************************)
C31_ServerDeletedOnEveryExit ==
    xpc \in {"returned", "raised"}
        => (builder = "none" \/ builder \in deletedServers)

(***************************************************************************)
(* C32: _wait_for_snapshot_complete polls the image status at most 11      *)
(* times, returns as soon as a poll sees "active" (the 11th included), and *)
(* raises TimeoutError exactly when all 11 polls saw a status that is not  *)
(* "active".                                                               *)
(***************************************************************************)
C32_NoneActive(n) == \A i \in 1..n : seen[i] # "active"

C32_PollsBoundedAndExact ==
    /\ Len(seen) <= 11
    /\ C32_NoneActive(Len(seen) - 1)
    /\ xpc = "poll" => C32_NoneActive(Len(seen)) /\ Len(seen) < 11
    /\ (seen # <<>> /\ seen[Len(seen)] = "active")
          => (xpc # "poll" /\ xraised # <<"TimeoutError">>)
    /\ xraised = <<"TimeoutError">> <=> (Len(seen) = 11 /\ C32_NoneActive(11))

\* the eleventh poll saw "active" and run went on to return
C32_Witness ==
    /\ Len(seen) = 11
    /\ seen[11] = "active"
    /\ xpc = "returned"

(***************************************************************************)
(* C33: _wait_for_cloud_init_complete is attempted again only after a      *)
(* status command that succeeded without "status: done" in its output; a   *)
(* status command that gives no result or a failed result raises           *)
(* CloudInitFailError at once, and no further attempt follows.             *)
(***************************************************************************)
C33_State ==
    /\ (xpc = "ssh" /\ ciAttempts > 1) => ciResult = "running"
    /\ ciResult \in {"None", "failed"}
          => (xpc = "raised" /\ xraised = <<"CloudInitFailError">>)

C33_Step ==
    /\ (xpc = "cloud_init" /\ xpc' = "ssh") => ciResult' = "running"
    /\ (xpc = "cloud_init" /\ ciResult' \in {"None", "failed"})
          => (xpc' = "raised" /\ xraised' = <<"CloudInitFailError">>
              /\ ciAttempts' = ciAttempts)
    /\ xraised = <<"CloudInitFailError">>
          => UNCHANGED <<xpc, ciAttempts, sshAttempts, ciResult>>

C33_RetryOnlyWhenNotDone == []C33_State /\ [][C33_Step]_vars

\* a second attempt, made after "running", ended in CloudInitFailError
C33_Witness ==
    /\ xraised = <<"CloudInitFailError">>
    /\ ciAttempts = 2
    /\ ciResult \in {"None", "failed"}

(***************************************************************************)
(* openstack_builder.run where every remote call returns or times out: a   *)
(* step that can be taken is taken.                                        *)
(***************************************************************************)
SpecExternalLive == InitExternal /\ [][NextExternal]_vars /\ WF_vars(NextExternal)

(***************************************************************************)
(* C34: openstack_builder.run eventually returns or raises, whatever the   *)
(* builder VM does, a VM whose cloud-init never reports "status: done" and *)
(* a VM never reachable over SSH included.                                 *)
(***************************************************************************)
C34_RunEnds == <>(xpc \in {"returned", "raised"})

(***************************************************************************)
(* C35: _determine_flavor returns only flavors with vcpus >= 2, ram >=     *)
(* 8192 and disk >= 20.  Without a name it returns the id of the first     *)
(* such flavor in ascending (vcpus, ram, disk) order and raises            *)
(* FlavorNotFoundError when none qualifies; with a name it raises          *)
(* FlavorNotFoundError when no flavor has the name and                     *)
(* FlavorRequirementsNotMetError when the flavor misses a minimum.         *)
(***************************************************************************)
C35_Listed == {flavors[i] : i \in 1..Len(flavors)}

C35_Qualifying == {f \in C35_Listed : f.vcpus >= 2 /\ f.ram >= 8192 /\ f.disk >= 20}

C35_Named == {f \in C35_Listed : f.name = flavor_name}

C35_FlavorChoice ==
    fpc = "end"
        => /\ (flavor.id = "none") # (flavor.raised = "none")
           /\ flavor.id # "none" => \E f \in C35_Qualifying : f.id = flavor.id
           /\ flavor_name = ""
                 => /\ C35_Qualifying = {} <=> flavor.raised = "FlavorNotFoundError"
                    /\ C35_Qualifying # {}
                          => \E f \in C35_Qualifying :
                                /\ f.id = flavor.id
                                /\ \A g \in C35_Qualifying : ~KeyLess(g, f)
           /\ flavor_name # ""
                 => /\ C35_Named = {} <=> flavor.raised = "FlavorNotFoundError"
                    /\ (C35_Named # {} /\ C35_Named \cap C35_Qualifying = {})
                          <=> flavor.raised = "FlavorRequirementsNotMetError"
                    /\ \A f \in C35_Named \cap C35_Qualifying : flavor.id = f.id

\* no name given, two flavors qualify, and the one listed second comes first in the order
C35_Witness ==
    /\ fpc = "end"
    /\ flavor_name = ""
    /\ Len(flavors) = 2
    /\ flavors[1] \in C35_Qualifying
    /\ flavors[2] \in C35_Qualifying
    /\ flavor.id = flavors[2].id

(***************************************************************************)
(* openstack_builder.initialize: the two base images are downloaded and    *)
(* uploaded, then the keypair and the security group every builder uses    *)
(* are created.  The base images carry names of their own, so the images   *)
(* of registry are not touched.  Calls follow one another.                 *)
(***************************************************************************)
MaxInitialize == 2  \* calls of initialize

\* what the steps of initialize leave alone
aroundShared == <<ctl, host, files, hist, pcB, cloud, checks, clirun, uploadB, extrun,
                  flavorsel>>

Resources == <<keypair, key_file, security_group, rules>>

\* initialize returns
initialize_returns ==
    /\ ipc' = "idle"
    /\ atReturn' = IF atReturn = <<>> THEN Resources' ELSE atReturn
    /\ UNCHANGED iraised

\* an error leaves initialize
initialize_raises(chain) ==
    /\ ipc' = "idle"
    /\ iraised' = chain
    /\ UNCHANGED atReturn

\* initialize(arch, cloud_name) is called
openstack_builder_initialize ==
    /\ ipc = "idle"
    /\ initCalls < MaxInitialize
    /\ initCalls' = initCalls + 1
    /\ ipc' = "download_jammy"
    /\ calls' = <<>>
    /\ iraised' = <<>>
    /\ UNCHANGED <<keypair, key_file, security_group, rules, atReturn, aroundShared>>

\* cloud_image.download_and_validate_image(arch=arch, base_image=...)
download_and_validate_image(here, next) ==
    /\ ipc = here
    /\ \/ ipc' = next /\ UNCHANGED iraised
       \/ initialize_raises(<<"BaseImageDownloadError">>)
    /\ UNCHANGED <<initCalls, keypair, key_file, security_group, rules, calls, atReturn,
                   aroundShared>>

\* store.upload_image(..., image_name=_get_base_image_name(...), keep_revisions=1)
upload_base_image(here, next) ==
    /\ ipc = here
    /\ \/ ipc' = next /\ UNCHANGED iraised
       \/ initialize_raises(<<"UploadImageError", "OpenStackCloudException">>)
    /\ UNCHANGED <<initCalls, keypair, key_file, security_group, rules, calls, atReturn,
                   aroundShared>>

\* the private key of a keypair made now: that of no keypair made before
NewKey == 1 + (IF keypair > key_file THEN keypair ELSE key_file)

\* as KeypairInPlace, but the key file is wanted absent
KeypairInPlace_fileAbsent == keypair # 0 /\ key_file = 0

\* key and BUILDER_KEY_PATH.exists()
KeypairInPlace == keypair # 0 /\ key_file # 0

\* _create_keypair(conn): stop is the call that raises, if one does
_create_keypair ==
    /\ ipc = "keypair"
    /\ IF KeypairInPlace
       THEN /\ calls' = Append(calls, "get_keypair")
            /\ ipc' = "security_group"
            /\ UNCHANGED <<keypair, key_file, iraised, atReturn>>
       ELSE \E stop \in {"delete_keypair", "create_keypair", "write_text", "none"} :
              /\ calls' = calls \o
                    (CASE stop = "delete_keypair" -> <<"get_keypair", "delete_keypair">>
                       [] OTHER -> <<"get_keypair", "delete_keypair", "create_keypair">>)
              /\ keypair' = CASE stop = "delete_keypair" -> keypair
                              [] stop = "create_keypair" -> 0
                              [] OTHER -> NewKey
              /\ key_file' = IF stop = "none" THEN NewKey ELSE key_file
              /\ IF stop = "none"
                 THEN ipc' = "security_group" /\ UNCHANGED <<iraised, atReturn>>
                 ELSE initialize_raises(<<IF stop = "write_text"
                                          THEN "OSError" ELSE "OpenStackCloudException">>)
    /\ UNCHANGED <<initCalls, security_group, rules, aroundShared>>

\* _create_security_group(conn): stop is the call that raises, if one does
_create_security_group ==
    /\ ipc = "security_group"
    /\ UNCHANGED <<initCalls, keypair, key_file, aroundShared>>
    /\ IF security_group
       THEN /\ calls' = Append(calls, "get_security_group")
            /\ UNCHANGED <<security_group, rules>>
            /\ initialize_returns
       ELSE \E stop \in {"create_security_group", "icmp", "ssh", "none"} :
              /\ calls' = calls \o
                    (CASE stop = "create_security_group" ->
                              <<"get_security_group", "create_security_group">>
                       [] stop = "icmp" ->
                              <<"get_security_group", "create_security_group",
                                "create_security_group_rule">>
                       [] OTHER ->
                              <<"get_security_group", "create_security_group",
                                "create_security_group_rule", "create_security_group_rule">>)
              /\ security_group' = (stop # "create_security_group")
              /\ rules' = CASE stop = "none" -> {"icmp", "ssh"}
                            [] stop = "ssh" -> {"icmp"}
                            [] OTHER -> {}
              /\ IF stop = "none"
                 THEN initialize_returns
                 ELSE initialize_raises(<<"OpenStackCloudException">>)

InitShared ==
    /\ pc = "none"
    /\ Fresh
    /\ Clean
    /\ arch = "x64"
    /\ base_image = "jammy"
    /\ pcB = "absent"
    /\ NoCloud
    /\ NoManifest
    /\ NoFile
    /\ NoCliRun
    /\ NoUploadB
    /\ NoExternalRun
    /\ NoFlavors
    /\ ipc = "idle"
    /\ initCalls = 0
    /\ keypair \in {0, 1}
    /\ key_file \in {0, 1}
    /\ security_group \in BOOLEAN
    /\ rules \in IF security_group THEN SUBSET {"icmp", "ssh"} ELSE {{}}
    /\ calls = <<>>
    /\ atReturn = <<>>
    /\ iraised = <<>>

NextShared ==
    \/ openstack_builder_initialize
    \/ download_and_validate_image("download_jammy", "download_noble")
    \/ download_and_validate_image("download_noble", "upload_jammy")
    \/ upload_base_image("upload_jammy", "upload_noble")
    \/ upload_base_image("upload_noble", "keypair")
    \/ _create_keypair
    \/ _create_security_group

SpecShared == InitShared /\ [][NextShared]_vars

(***************************************************************************)
(* C36: creating the shared builder resources is idempotent.               *)
(* _create_keypair deletes and creates nothing when the keypair exists in  *)
(* the cloud and the private key file exists locally;                      *)
(* _create_security_group creates no group and no rule when the group      *)
(* exists; so an initialize that follows one that returned leaves keypair, *)
(* key file and security group as they were.                               *)
(***************************************************************************)
C36_Step ==
    /\ (ipc = "keypair" /\ keypair # 0 /\ key_file # 0)
          => /\ calls' = Append(calls, "get_keypair")
             /\ UNCHANGED <<keypair, key_file>>
    /\ (ipc = "security_group" /\ security_group)
          => /\ calls' = Append(calls, "get_security_group")
             /\ UNCHANGED <<security_group, rules>>

C36_State ==
    atReturn # <<>> => <<keypair, key_file, security_group, rules>> = atReturn

C36_InitializeIdempotent == []C36_State /\ [][C36_Step]_vars

\* a second initialize has returned, and so had the first; it made two calls
C36_Witness ==
    /\ initCalls = 2
    /\ ipc = "idle"
    /\ iraised = <<>>
    /\ atReturn = <<1, 1, TRUE, {"icmp", "ssh"}>>
    /\ calls = <<"get_keypair", "get_security_group">>

(***************************************************************************)
(* build_image where every call that is given a timeout, or that waits for *)
(* nothing outside the process, returns: each step but the download.       *)
(* urllib.request.urlretrieve is called without a timeout and no default   *)
(* socket timeout is set, so nothing makes a stalled download return.      *)
(***************************************************************************)
TimedStep == build_image /\ pc # "download"

SpecLive == Init /\ [][Next]_vars /\ WF_vars(TimedStep)

\* as SpecLive, with a download that always returns or raises
SpecLiveDownload == Init /\ [][Next]_vars /\ WF_vars(build_image)

(***************************************************************************)
(* C37: build_image always terminates: every operation has a finite        *)
(* timeout and every retried operation a finite attempt bound, so every    *)
(* run of build_image eventually returns or raises.                        *)
(***************************************************************************)
C37_BuildEnds == []<>(pc \in {"done", "raised"})

(***************************************************************************)
(* C38: every operation of build_image that writes into the mounted image  *)
(* (the copy of yq to the mounted path, the replacement of resolv.conf,    *)
(* the chroot steps) runs only while the image is attached to /dev/nbd0    *)
(* and its partition is mounted, and the detach is issued only after the   *)
(* chroot session has been exited.                                         *)
(***************************************************************************)
C38_InChrootPcs == {"apt_update", "apt_install", "disable_upgrades", "configure_users",
                    "configure_bin", "install_yarn"}

C38_WritingPcs == {"install_yq", "resolv", "chroot_enter", "chroot_exit"} \cup C38_InChrootPcs

C38_State ==
    /\ pc \in C38_WritingPcs => (attached /\ mounted)
    /\ pc \in C38_InChrootPcs => chrooted
    /\ pc \in {"ddisc_nbd", "ddisc_nbdp1"} => (~chrooted /\ "chroot_exit" \in completed)

C38_Step ==
    /\ (yqInstalled' /\ ~yqInstalled) => (attached /\ mounted)
    /\ (resolvReplaced' /\ ~resolvReplaced) => (attached /\ mounted)
    /\ (started' \ started) \cap C38_InChrootPcs # {} => (attached /\ mounted /\ chrooted)
    /\ "detach" \in started' \ started => (~chrooted /\ "chroot_exit" \in completed)

C38_WritesWhileMountedDetachAfterExit == []C38_State /\ [][C38_Step]_vars

\* yq and resolv.conf were written, the chroot steps ran, and the detach has been issued
C38_Witness ==
    /\ yqInstalled
    /\ resolvReplaced
    /\ "install_yarn" \in completed
    /\ "detach" \in started

====
